---- MODULE Spec2Model ----
(***************************************************************************)
(* Closet app: the calendar screen's date helpers and in-memory            *)
(* aggregates (calendar.tsx), the analytics screen's derived values        *)
(* (analytics.tsx), and the components themselves.                         *)
(*                                                                         *)
(* A JavaScript Date is an instant.  Instants are counted here in whole    *)
(* hours since 1970-01-01T00:00Z.  The device's time zone is a fixed       *)
(* offset tzOffset, in hours east of UTC (no daylight-saving changes).     *)
(* Local getters/setters (getFullYear, getMonth, getDate, getDay,          *)
(* setDate, new Date(y, m, d)) read the instant shifted by tzOffset;       *)
(* toISOString reads it unshifted.                                         *)
(*                                                                         *)
(* Strings are sequences of character codes, so that Array.prototype.sort  *)
(* (code-unit order), join(',') and the property order of a plain object   *)
(* (array-index keys first) are computed as the engine computes them.      *)
(*                                                                         *)
(* SpecDates applies isSameDay, getMonthGrid and getWeekDays, SpecIndex    *)
(* builds outfitMap, SpecMostWorn applies getMostWornThisMonth and         *)
(* SpecStreak applies getStreak, each once per behaviour to an input drawn *)
(* from the bounds; call holds the helper and its arguments, ret what it   *)
(* returned.  SpecStreakLoop runs getStreak's loop one iteration per step, *)
(* SpecAnalytics renders the category rows and the colour chart of a       *)
(* snapshot, SpecRecords applies the aggregates to records whose date may  *)
(* not parse, and SpecObjects runs the helpers on objects of a heap.       *)
(* Numbers that the code rounds are IEEE-754 doubles, computed exactly.    *)
(*                                                                         *)
(* SpecApp runs one mounted component: the calendar screen, the analytics  *)
(* screen, the settings screen (settings.tsx) or the floating action menu  *)
(* of the tab layout (_layout.tsx), with the network, the user and the     *)
(* timers as steps of their own; screen holds the component.  SpecAppFair  *)
(* adds that the code after a settled await runs and that a response body  *)
(* being read is read to its end or fails.                                 *)
(***************************************************************************)
EXTENDS Integers, Sequences, FiniteSets

VARIABLES tzOffset, call, ret, screen

vars == <<tzOffset, call, ret, screen>>

\* null / undefined, and a Date held in a cell of (Date | null)[].
Null == [null |-> TRUE]
DateCell(t) == [date |-> t]

HoursPerDay == 24

(***************************************************************************)
(* ECMAScript Date arithmetic (proleptic Gregorian calendar).              *)
(***************************************************************************)

\* Day(t): the day number of an instant.
Day(t) == t \div HoursPerDay

\* HourFromTime(t): the time within the day.
TimeWithinDay(t) == t % HoursPerDay

\* MakeDay(year, month, date) of ECMAScript: month is zero-based and may lie
\* outside 0..11, date may lie outside the month; both carry over.
MakeDay(year, month, date) ==
  LET ym  == year + (month \div 12)
      mn  == month % 12
      y   == IF mn <= 1 THEN ym - 1 ELSE ym
      era == y \div 400
      yoe == y - era * 400
      mp  == IF mn >= 2 THEN mn - 2 ELSE mn + 10
      doy == (153 * mp + 2) \div 5
      doe == yoe * 365 + (yoe \div 4) - (yoe \div 100) + doy
  IN  era * 146097 + doe - 719468 + (date - 1)

\* YearFromTime / MonthFromTime / DateFromTime of ECMAScript, for a day number.
CivilFromDay(n) ==
  LET z   == n + 719468
      era == z \div 146097
      doe == z - era * 146097
      yoe == (doe - (doe \div 1460) + (doe \div 36524) - (doe \div 146096)) \div 365
      doy == doe - (365 * yoe + (yoe \div 4) - (yoe \div 100))
      mp  == (5 * doy + 2) \div 153
      d   == doy - ((153 * mp + 2) \div 5) + 1
      m   == IF mp < 10 THEN mp + 2 ELSE mp - 10
      y   == yoe + era * 400 + (IF m <= 1 THEN 1 ELSE 0)
  IN  [year |-> y, month |-> m, date |-> d]

\* WeekDay(t) of ECMAScript: 0 = Sunday; 1970-01-01 was a Thursday.
WeekDay(n) == (n + 4) % 7

\* LocalTime(t): the instant as the device's wall clock reads it.
LocalTime(t, tz) == t + tz

\* Date.prototype.getFullYear / getMonth / getDate / getDay (local time).
getFullYear(t, tz) == CivilFromDay(Day(LocalTime(t, tz))).year
getMonth(t, tz) == CivilFromDay(Day(LocalTime(t, tz))).month
getDate(t, tz) == CivilFromDay(Day(LocalTime(t, tz))).date
getDay(t, tz) == WeekDay(Day(LocalTime(t, tz)))

\* new Date(year, month, date): local midnight of that day.
NewDate(year, month, date, tz) == MakeDay(year, month, date) * HoursPerDay - tz

\* Date.prototype.setDate(date): the day of the month is replaced, the local
\* year, month and time of day are kept; out-of-range values carry over.
setDate(t, date, tz) ==
  LET lt == LocalTime(t, tz)
      c  == CivilFromDay(Day(lt))
  IN  (MakeDay(c.year, c.month, date) * HoursPerDay + TimeWithinDay(lt)) - tz

\* Date.prototype.toISOString: the UTC fields of the instant.
toISOString(t) ==
  LET c == CivilFromDay(Day(t))
  IN  [Y |-> c.year, M |-> c.month + 1, D |-> c.date, h |-> TimeWithinDay(t)]

(***************************************************************************)
(* calendar.tsx helpers.                                                   *)
(***************************************************************************)

\* toDateKey: date.toISOString().split('T')[0], the "YYYY-MM-DD" part.
toDateKey(date) ==
  LET iso == toISOString(date)
  IN  <<iso.Y, iso.M, iso.D>>

isSameDay(a, b) == toDateKey(a) = toDateKey(b)

\* Mutant: one trailing blank at most (if in place of while).
PadTrailingOnce(grid) ==
  IF Len(grid) % 7 # 0 THEN Append(grid, Null) ELSE grid

\* Trailing blanks to fill the last row.
RECURSIVE PadTrailing(_)
PadTrailing(grid) ==
  IF Len(grid) % 7 # 0 THEN PadTrailing(Append(grid, Null)) ELSE grid

\* Mutant: the cells run to the last day of the month before.
getMonthGridPrevLength(year, month, tz) ==
  LET firstDay == NewDate(year, month, 1, tz)
      lastDay  == NewDate(year, month, 0, tz)
      leading  == [i \in 1..getDay(firstDay, tz) |-> Null]
      days     == [d \in 1..getDate(lastDay, tz) |-> DateCell(NewDate(year, month, d, tz))]
  IN  PadTrailing(leading \o days)

getMonthGrid(year, month, tz) ==
  LET firstDay == NewDate(year, month, 1, tz)
      lastDay  == NewDate(year, month + 1, 0, tz)
      leading  == [i \in 1..getDay(firstDay, tz) |-> Null]
      days     == [d \in 1..getDate(lastDay, tz) |-> DateCell(NewDate(year, month, d, tz))]
  IN  PadTrailing(leading \o days)

\* Mutant: the week starts on Monday.
getWeekDaysFromMonday(date, tz) ==
  LET day    == getDay(date, tz)
      monday == setDate(date, getDate(date, tz) - day + 1, tz)
  IN  [i \in 1..7 |-> setDate(monday, getDate(monday, tz) + (i - 1), tz)]

getWeekDays(date, tz) ==
  LET day    == getDay(date, tz)
      sunday == setDate(date, getDate(date, tz) - day, tz)
  IN  [i \in 1..7 |-> setDate(sunday, getDate(sunday, tz) + (i - 1), tz)]

(***************************************************************************)
(* Strings, arrays and plain objects as the engine handles them.           *)
(***************************************************************************)

Comma == 44
Digit0 == 48
Digit9 == 57

\* x < y on strings: code-unit order, a proper prefix comes first.
RECURSIVE StrLess(_, _)
StrLess(x, y) ==
  IF y = <<>> THEN FALSE
  ELSE IF x = <<>> THEN TRUE
  ELSE IF Head(x) # Head(y) THEN Head(x) < Head(y)
  ELSE StrLess(Tail(x), Tail(y))

\* Insert e into the sorted array a after every element that is not greater
\* (the sort is stable).
RECURSIVE InsertStr(_, _)
InsertStr(a, e) ==
  IF a = <<>> THEN <<e>>
  ELSE IF StrLess(e, Head(a)) THEN <<e>> \o a
  ELSE <<Head(a)>> \o InsertStr(Tail(a), e)

\* [...arr].sort(): a sorted copy, default comparator.
RECURSIVE SortStrings(_)
SortStrings(arr) ==
  IF arr = <<>> THEN <<>>
  ELSE InsertStr(SortStrings(SubSeq(arr, 1, Len(arr) - 1)), arr[Len(arr)])

\* arr.join(',')
RECURSIVE Join(_)
Join(arr) ==
  IF arr = <<>> THEN <<>>
  ELSE IF Len(arr) = 1 THEN arr[1]
  ELSE arr[1] \o <<Comma>> \o Join(Tail(arr))

\* "4294967294", the decimal form of 2^32 - 2.
MaxIndexDigits == <<52, 50, 57, 52, 57, 54, 55, 50, 57, 52>>

\* A property key is an array index when it is the canonical decimal form of
\* an integer in 0 .. 2^32 - 2.
IsArrayIndex(key) ==
  /\ Len(key) >= 1
  /\ \A i \in 1..Len(key) : key[i] >= Digit0 /\ key[i] <= Digit9
  /\ (Len(key) > 1 => key[1] # Digit0)
  /\ \/ Len(key) < Len(MaxIndexDigits)
     \/ Len(key) = Len(MaxIndexDigits) /\ ~StrLess(MaxIndexDigits, key)

\* Numeric order of two array-index keys (canonical decimal forms).
IndexLess(j, k) == Len(j) < Len(k) \/ (Len(j) = Len(k) /\ StrLess(j, k))

\* A plain object {}: its own keys in property order (array-index keys
\* ascending, then the other keys in creation order) and their values.
EmptyObject == [keys |-> <<>>, val |-> <<>>]

HasKey(obj, key) == \E i \in 1..Len(obj.keys) : obj.keys[i] = key

KeyPos(obj, key) == CHOOSE i \in 1..Len(obj.keys) : obj.keys[i] = key

GetProp(obj, key) == obj.val[KeyPos(obj, key)]

\* obj[key] = v
SetProp(obj, key, v) ==
  IF HasKey(obj, key)
  THEN [obj EXCEPT !.val[KeyPos(obj, key)] = v]
  ELSE
    LET isIdx(k) == IsArrayIndex(k)
        nIdx     == Cardinality({i \in 1..Len(obj.keys) : isIdx(obj.keys[i])})
        idxKeys  == SubSeq(obj.keys, 1, nIdx)
        pos      == IF isIdx(key)
                    THEN Cardinality({i \in 1..nIdx : IndexLess(idxKeys[i], key)}) + 1
                    ELSE Len(obj.keys) + 1
        ins(s, e) == SubSeq(s, 1, pos - 1) \o <<e>> \o SubSeq(s, pos, Len(s))
    IN  [keys |-> ins(obj.keys, key), val |-> ins(obj.val, v)]

\* Object.values(obj)
ObjectValues(obj) == obj.val

\* Insert e into an array sorted by (a, b) => b.count - a.count, after every
\* element the comparator does not put behind it (the sort is stable).
RECURSIVE InsertByCount(_, _)
InsertByCount(a, e) ==
  IF a = <<>> THEN <<e>>
  ELSE IF e.count - Head(a).count <= 0
       THEN <<Head(a)>> \o InsertByCount(Tail(a), e)
       ELSE <<e>> \o a

\* arr.sort((a, b) => b.count - a.count)
RECURSIVE SortByCountDesc(_)
SortByCountDesc(arr) ==
  IF arr = <<>> THEN <<>>
  ELSE InsertByCount(SortByCountDesc(SubSeq(arr, 1, Len(arr) - 1)), arr[Len(arr)])

\* new Date(o.date) for an ISO-8601 string in UTC: "YYYY-MM-DDThh:00:00.000Z",
\* or the date-only form "YYYY-MM-DD", which is midnight UTC.
ParseDate(s) == MakeDay(s.Y, s.M - 1, s.D) * HoursPerDay + s.h

\* new Date(s) is an Invalid Date (time value NaN) when s does not parse.
IsInvalidDate(s) == "Y" \notin DOMAIN s

\* What a piece of code comes to: the value it returns or the error it throws.
Returned(value) == [returned |-> value]
Thrown(name) == [thrown |-> name]

(***************************************************************************)
(* CalendarScreen: derived data and analytics helpers.                     *)
(***************************************************************************)

\* Mutant: the first outfit of a day is kept.
RECURSIVE outfitMapFirstWins(_)
outfitMapFirstWins(outfits) ==
  IF outfits = <<>> THEN <<>>
  ELSE
    LET prev == outfitMapFirstWins(SubSeq(outfits, 1, Len(outfits) - 1))
        o    == outfits[Len(outfits)]
        key  == toDateKey(ParseDate(o.date))
    IN  [k \in (DOMAIN prev) \cup {key} |-> IF k \in DOMAIN prev THEN prev[k] ELSE o]

\* outfits.forEach((o) => { outfitMap[toDateKey(new Date(o.date))] = o; });
\* the map is a function from the keys set so far to the outfit stored.
RECURSIVE outfitMap(_)
outfitMap(outfits) ==
  IF outfits = <<>> THEN <<>>
  ELSE
    LET prev == outfitMap(SubSeq(outfits, 1, Len(outfits) - 1))
        o    == outfits[Len(outfits)]
        key  == toDateKey(ParseDate(o.date))
    IN  [k \in (DOMAIN prev) \cup {key} |-> IF k = key THEN o ELSE prev[k]]

\* Computing outfitMap while the component renders: toISOString throws a
\* RangeError on an Invalid Date, which ends the forEach and the render.
outfitMapRun(outfits) ==
  IF \E i \in 1..Len(outfits) : IsInvalidDate(outfits[i].date)
  THEN Thrown("RangeError")
  ELSE Returned(outfitMap(outfits))

\* Filter outfits to this month only.
thisMonthOutfits(outfits, currentMonth, tz) ==
  LET year  == getFullYear(currentMonth, tz)
      month == getMonth(currentMonth, tz)
      keep(o) == /\ ~IsInvalidDate(o.date)   \* NaN === year is false
                 /\ LET d == ParseDate(o.date)
                    IN  getFullYear(d, tz) = year /\ getMonth(d, tz) = month
  IN  SelectSeq(outfits, keep)

\* Mutant: the ids are joined unsorted.
signatureUnsorted(o) == Join(o.garmentIds)

\* The key of an outfit in countMap: [...o.garmentIds].sort().join(',')
signature(o) == Join(SortStrings(o.garmentIds))

\* countMap after thisMonthOutfits.forEach(...)
RECURSIVE countMap(_)
countMap(monthOutfits) ==
  IF monthOutfits = <<>> THEN EmptyObject
  ELSE
    LET prev  == countMap(SubSeq(monthOutfits, 1, Len(monthOutfits) - 1))
        o     == monthOutfits[Len(monthOutfits)]
        key   == signature(o)
        entry == IF HasKey(prev, key) THEN GetProp(prev, key)
                 ELSE [count |-> 0, outfit |-> o]
    IN  SetProp(prev, key, [entry EXCEPT !.count = @ + 1])

\* best: Object.values(countMap).sort((a, b) => b.count - a.count)[0]
mostWornBest(monthOutfits) ==
  SortByCountDesc(ObjectValues(countMap(monthOutfits)))[1]

\* getMostWornThisMonth without `if (thisMonthOutfits.length === 0) return
\* null`: best is undefined for an empty month and best.outfit throws.
getMostWornThisMonthUnguarded(outfits, currentMonth, tz) ==
  LET monthOutfits == thisMonthOutfits(outfits, currentMonth, tz)
  IN  IF Len(monthOutfits) = 0 THEN Thrown("TypeError")
      ELSE LET best == mostWornBest(monthOutfits)
           IN  [previewImage |-> best.outfit.previewImage, count |-> best.count]

getMostWornThisMonth(outfits, currentMonth, tz) ==
  LET monthOutfits == thisMonthOutfits(outfits, currentMonth, tz)
  IN  IF Len(monthOutfits) = 0 THEN Null
      ELSE LET best == mostWornBest(monthOutfits)
           IN  [previewImage |-> best.outfit.previewImage, count |-> best.count]

\* Mutant: a day without an outfit is skipped once, before the count starts.
RECURSIVE streakWalkGrace(_, _, _, _)
streakWalkGrace(map, checking, streak, tz) ==
  IF toDateKey(checking) \in DOMAIN map
  THEN streakWalkGrace(map, setDate(checking, getDate(checking, tz) - 1, tz), streak + 1, tz)
  ELSE IF streak = 0 /\ toDateKey(setDate(checking, getDate(checking, tz) - 1, tz)) \in DOMAIN map
       THEN streakWalkGrace(map, setDate(checking, getDate(checking, tz) - 1, tz), 0, tz)
       ELSE streak

\* The while (true) walk of getStreak from `checking`.
RECURSIVE streakWalk(_, _, _, _)
streakWalk(map, checking, streak, tz) ==
  IF toDateKey(checking) \in DOMAIN map
  THEN streakWalk(map, setDate(checking, getDate(checking, tz) - 1, tz), streak + 1, tz)
  ELSE streak

\* getStreak with today = new Date() = now.
getStreak(map, now, tz) == streakWalk(map, now, 0, tz)

\* checking.setDate(checking.getDate() - 1) without the step: the same day again.
stepBackNone(checking, tz) == checking

\* checking.setDate(checking.getDate() - 1): the same local time, a day earlier.
stepBack(checking, tz) == setDate(checking, getDate(checking, tz) - 1, tz)

(***************************************************************************)
(* Numbers: IEEE-754 binary64.  A positive double is [hi, mid, lo, e]: its *)
(* 53-bit significand is hi * 2^36 + mid * 2^18 + lo (hi has 17 bits and   *)
(* its top bit set, mid and lo have 18 bits), e is the exponent of the top *)
(* bit, and its value is significand * 2^(e - 52).                         *)
(***************************************************************************)

LimbBits == 18

HiBits == 17

RECURSIVE Pow2(_)
Pow2(k) == IF k = 0 THEN 1 ELSE 2 * Pow2(k - 1)

Limb == Pow2(LimbBits)

DoubleZero == [hi |-> 0, mid |-> 0, lo |-> 0, e |-> 0]

\* The significand plus one unit in the last place.
NextUp(x) ==
  IF x.lo + 1 < Limb THEN [x EXCEPT !.lo = x.lo + 1]
  ELSE IF x.mid + 1 < Limb THEN [x EXCEPT !.lo = 0, !.mid = x.mid + 1]
  ELSE IF x.hi + 1 < Pow2(HiBits) THEN [x EXCEPT !.lo = 0, !.mid = 0, !.hi = x.hi + 1]
  ELSE [hi |-> Pow2(HiBits - 1), mid |-> 0, lo |-> 0, e |-> x.e + 1]

\* Round to nearest, ties to even: x is the exact value cut off after 53
\* bits, guard the first bit cut off, sticky whether any later bit was set.
RoundToDouble(x, guard, sticky) ==
  IF guard = 1 /\ (sticky \/ (x.lo % 2) = 1) THEN NextUp(x) ELSE x

\* The exponent of a / b: the k with 2^k <= a / b < 2^(k + 1).
RECURSIVE QuotientExponent(_, _, _)
QuotientExponent(a, b, k) ==
  IF a >= 2 * b THEN QuotientExponent(a, 2 * b, k + 1)
  ELSE IF a < b THEN QuotientExponent(2 * a, b, k - 1)
  ELSE k

\* a / b for integers a >= 0, b > 0 (long division, 18 bits at a time).
DivDouble(a, b) ==
  IF a = 0 THEN DoubleZero
  ELSE
    LET e   == QuotientExponent(a, b, 0)
        num == IF e < 0 THEN a * Pow2(0 - e) ELSE a
        den == IF e > 0 THEN b * Pow2(e) ELSE b
        hi  == (num * Pow2(HiBits - 1)) \div den
        r1  == (num * Pow2(HiBits - 1)) % den
        mid == (r1 * Limb) \div den
        r2  == (r1 * Limb) % den
        lo  == (r2 * Limb) \div den
        r3  == (r2 * Limb) % den
    IN  RoundToDouble([hi |-> hi, mid |-> mid, lo |-> lo, e |-> e],
                      (2 * r3) \div den, ((2 * r3) % den) # 0)

\* How many bits the top limb of a product exceeds 17 bits by.
RECURSIVE ExcessBits(_)
ExcessBits(top) == IF top < Pow2(HiBits) THEN 0 ELSE 1 + ExcessBits(top \div 2)

\* x * c for a double x and an integer 0 < c < 2^13.
MulDouble(x, c) ==
  IF x = DoubleZero THEN DoubleZero
  ELSE
    LET lo   == (x.lo * c) % Limb
        c1   == (x.lo * c) \div Limb
        mid  == (x.mid * c + c1) % Limb
        c2   == (x.mid * c + c1) \div Limb
        hi   == x.hi * c + c2
        s    == ExcessBits(hi)
        cut  == Pow2(s)
        keep == Pow2(LimbBits - s)
    IN  IF s = 0 THEN [hi |-> hi, mid |-> mid, lo |-> lo, e |-> x.e]
        ELSE RoundToDouble([hi  |-> hi \div cut,
                            mid |-> (hi % cut) * keep + (mid \div cut),
                            lo  |-> (mid % cut) * keep + (lo \div cut),
                            e   |-> x.e + s],
                           (lo \div Pow2(s - 1)) % 2, (lo % Pow2(s - 1)) # 0)

\* Math.round(x) for a double 0 <= x < 2^30: the nearest integer, halves
\* upward.
MathRound(x) ==
  IF x = DoubleZero \/ x.e < 0 - 1 THEN 0
  ELSE IF x.e = 0 - 1 THEN 1
  ELSE IF x.e < HiBits - 1
  THEN (x.hi \div Pow2(HiBits - 1 - x.e)) + ((x.hi \div Pow2(HiBits - 2 - x.e)) % 2)
  ELSE x.hi * Pow2(x.e - (HiBits - 1)) + (x.mid \div Pow2(2 * LimbBits - 2 - x.e))
       + ((x.mid \div Pow2(2 * LimbBits - 3 - x.e)) % 2)

(***************************************************************************)
(* analytics.tsx: AnalyticsScreen's derived values.                        *)
(***************************************************************************)

\* The share of a category row as a fraction instead of a percentage.
categoryFraction(count, totalItems) ==
  IF totalItems > 0 THEN MathRound(DivDouble(count, totalItems)) ELSE 0

\* pct of a category row:
\* totalItems > 0 ? Math.round((cat.count / totalItems) * 100) : 0
categoryPercent(count, totalItems) ==
  IF totalItems > 0 THEN MathRound(MulDouble(DivDouble(count, totalItems), 100)) ELSE 0

\* const CHART_COLORS = [...]
CHART_COLORS ==
  << "#F0507B", "#FB92BD", "#FF8FAB", "#FFB3C6",
     "#D9D9D9", "#A8DADC", "#7EC8E3", "#B8B8FF",
     "#C8E6C9", "#FFD180", "#FFAB91", "#CE93D8" >>

\* CHART_COLORS[i % CHART_COLORS.length] for a zero-based i.
chartColor(i) == CHART_COLORS[(i % Len(CHART_COLORS)) + 1]

\* overview?.totalItems ?? 0
totalItems(overview) == IF overview = Null THEN 0 ELSE overview.totalItems

\* Category names are strings of character codes.
Tops == <<84, 111, 112, 115>>
Bottoms == <<66, 111, 116, 116, 111, 109, 115>>
Dresses == <<68, 114, 101, 115, 115, 101, 115>>
Shoes == <<83, 104, 111, 101, 115>>
Bags == <<66, 97, 103, 115>>
Accessories == <<65, 99, 99, 101, 115, 115, 111, 114, 105, 101, 115>>

\* ['Tops', 'Bottoms', 'Dresses', 'Shoes', 'Bags', 'Accessories']
fallbackNames == <<Tops, Bottoms, Dresses, Shoes, Bags, Accessories>>

\* The rows of categories.map(...), in the reverse of the array's order.
dataRowsReversed(categories, total) ==
  [i \in 1..Len(categories) |->
    LET cat == categories[Len(categories) + 1 - i]
    IN  [name |-> cat.name, width |-> categoryPercent(cat.count, total),
         count |-> cat.count, barColor |-> chartColor(i - 1)]]

\* categories.map((cat, i) => row): name, bar width in percent, count.
dataRows(categories, total) ==
  [i \in 1..Len(categories) |->
    [name |-> categories[i].name,
     width |-> categoryPercent(categories[i].count, total),
     count |-> categories[i].count, barColor |-> chartColor(i - 1)]]

\* The fallback: the expected categories as empty rows.
fallbackRows ==
  [i \in 1..Len(fallbackNames) |->
    [name |-> fallbackNames[i], width |-> 0, count |-> 0, barColor |-> CHART_COLORS[i]]]

\* The category rows without the fallback.
categoryRowsOfData(overview, categories) == dataRows(categories, totalItems(overview))

\* categories.length > 0 ? categories.map(...) : [fallback names].map(...)
categoryRows(overview, categories) ==
  IF Len(categories) > 0 THEN dataRows(categories, totalItems(overview)) ELSE fallbackRows

\* colours.map((c, i) => ({count, colour: c.colour || CHART_COLORS[i % 12]}))
colourPieData(colours) ==
  [i \in 1..Len(colours) |->
    [count  |-> colours[i].count,
     colour |-> IF colours[i].colour # "" THEN colours[i].colour ELSE chartColor(i - 1)]]

\* The number of entries instead of the sum of their counts.
pieTotalOfEntries(data) == Len(data)

\* data.reduce((s, d) => s + d.count, 0)
RECURSIVE pieTotal(_)
pieTotal(data) == IF data = <<>> THEN 0 ELSE data[1].count + pieTotal(Tail(data))

\* buildPieSlices: one slice per entry; share is d.count / total, the part
\* of 2 * Math.PI its angle takes, largeArc is angle > Math.PI.
buildPieSlices(data) ==
  LET total == pieTotal(data)
  IN  IF total = 0 THEN <<>>
      ELSE [i \in 1..Len(data) |->
             [share    |-> DivDouble(data[i].count, total),
              largeArc |-> IF 2 * data[i].count > total THEN 1 ELSE 0,
              colour   |-> data[i].colour]]

\* [...colours].sort((a, b) => b.count - a.count).slice(0, 2)
topColours(colours) ==
  LET sorted == SortByCountDesc(colours)
  IN  SubSeq(sorted, 1, IF Len(sorted) < 2 THEN Len(sorted) ELSE 2)


(***************************************************************************)
(* Objects.  Dates and arrays are objects: the heap maps a reference to    *)
(* the value of the object it names.  setDate and sort change the object   *)
(* they are called on; new Date(d) and [...a] make a new object.           *)
(***************************************************************************)

Ref(obj, of) == [obj |-> obj, of |-> of]

\* `const x = y`: x names the object y names.
aliasOf(heap, ref, new) == [heap |-> heap, ref |-> ref]

\* new Date(date), [...array]: a new object with the value of the old one.
copyOf(heap, ref, new) ==
  [heap |-> [r \in (DOMAIN heap) \cup {new} |-> IF r = new THEN heap[ref] ELSE heap[r]],
   ref  |-> new]

\* getWeekDays(date): sunday is a copy of date, moved back with setDate.
getWeekDaysOn(heap, date, tz) ==
  LET day    == getDay(heap[date], tz)
      sunday == copyOf(heap, date, Ref("sunday", 0))
      after  == [sunday.heap EXCEPT
                   ![sunday.ref] = setDate(@, getDate(heap[date], tz) - day, tz)]
  IN  [heap  |-> after,
       value |-> [i \in 1..7 |->
                   setDate(after[sunday.ref], getDate(after[sunday.ref], tz) + (i - 1), tz)]]

\* [...o.garmentIds].sort().join(','): the copy is sorted in place.
signatureOn(heap, garmentIds, new) ==
  LET copy  == copyOf(heap, garmentIds, new)
      after == [copy.heap EXCEPT ![copy.ref] = SortStrings(@)]
  IN  [heap |-> after, value |-> Join(after[copy.ref])]

\* thisMonthOutfits.forEach: the signatures of the outfits from the i-th on.
RECURSIVE signaturesOn(_, _, _)
signaturesOn(heap, monthOutfits, i) ==
  IF i > Len(monthOutfits) THEN heap
  ELSE signaturesOn(signatureOn(heap, monthOutfits[i].garmentIds, Ref("copy", i)).heap,
                    monthOutfits, i + 1)

\* The outfits with their garmentIds arrays in place of the references.
Resolved(heap, outfits) ==
  [i \in 1..Len(outfits) |-> [outfits[i] EXCEPT !.garmentIds = heap[@]]]

\* getMostWornThisMonth over the outfits array object: filter makes a new
\* array, each signature sorts a copy.
getMostWornThisMonthOn(heap, outfits, currentMonth, tz) ==
  [heap  |-> signaturesOn(heap, thisMonthOutfits(heap[outfits], currentMonth, tz), 1),
   value |-> getMostWornThisMonth(Resolved(heap, heap[outfits]), currentMonth, tz)]

\* outfitMap: forEach stores each outfit under its key in a new object.
outfitMapOn(heap, outfits) ==
  LET map == outfitMap(Resolved(heap, heap[outfits]))
  IN  [heap  |-> [r \in (DOMAIN heap) \cup {Ref("outfitMap", 0)} |->
                   IF r = Ref("outfitMap", 0) THEN map ELSE heap[r]],
       value |-> map]

\* [...colours].sort((a, b) => b.count - a.count).slice(0, 2)
topColoursOn(heap, colours) ==
  LET copy   == copyOf(heap, colours, Ref("copy", 0))
      after  == [copy.heap EXCEPT ![copy.ref] = SortByCountDesc(@)]
      sorted == after[copy.ref]
  IN  [heap  |-> after,
       value |-> SubSeq(sorted, 1, IF Len(sorted) < 2 THEN Len(sorted) ELSE 2)]

(***************************************************************************)
(* Components.  screen is the mounted component: its useState values, the  *)
(* async functions it has started with the promise each one awaits, the    *)
(* alert on top, and what it has asked of the router and of SecureStore.   *)
(* A promise is Null while pending, Returned(v) once fulfilled with v and  *)
(* Thrown(e) once rejected with e.  The code after an await runs in a step *)
(* of its own, once the awaited promise has settled.                       *)
(***************************************************************************)

Fulfilled(promise) == "returned" \in DOMAIN promise
Rejected(promise) == "thrown" \in DOMAIN promise
Settled(promise) == Fulfilled(promise) \/ Rejected(promise)

\* A Response: fetch fulfils with one whatever the HTTP status is.
Response(ok) == [ok |-> ok]

\* Alert.alert(title, message, buttons): the alert on top, with the outfit
\* its Delete button was built for.
AlertOf(title) == [title |-> title]
DeleteAlert(outfitId) == [title |-> "Delete Outfit", outfitId |-> outfitId]

(***************************************************************************)
(* calendar.tsx: CalendarScreen.                                           *)
(***************************************************************************)

\* The component after mounting at the instant `now`: the useState values,
\* and fetchOutfits, called by the effect, awaiting fetch.
CalendarScreen(now) ==
  [name         |-> "CalendarScreen",
   viewMode     |-> "day",
   selectedDate |-> now,
   currentMonth |-> now,
   outfits      |-> <<>>,
   loading      |-> TRUE,
   menuVisible  |-> FALSE,
   alert        |-> Null,
   fetchOutfits |-> [pc |-> "await fetch", response |-> Null, body |-> Null],
   deleteOutfit |-> <<>>]

\* What a component returns while its loading flag is set.
Spinner == [view |-> "spinner"]

\* if (loading) return <ActivityIndicator/>; otherwise the day view or the
\* month view.
renderCalendarScreen(s) == IF s.loading THEN Spinner ELSE [view |-> s.viewMode]

\* const selectedOutfit = outfitMap[toDateKey(selectedDate)];
HasSelectedOutfit(s) == toDateKey(s.selectedDate) \in DOMAIN outfitMap(s.outfits)
selectedOutfit(s) == outfitMap(s.outfits)[toDateKey(s.selectedDate)]

\* fetchOutfits after an await: the rest of the try block, or catch, and
\* finally.
fetchOutfitsResume(s) ==
  LET f == s.fetchOutfits
  IN  IF f.pc = "await fetch"
      THEN IF Fulfilled(f.response)
           THEN [s EXCEPT !.fetchOutfits.pc = "await json"]
           ELSE [s EXCEPT !.loading = FALSE, !.fetchOutfits.pc = "done"]
      ELSE IF Fulfilled(f.body)
           THEN [s EXCEPT !.outfits = f.body.returned, !.loading = FALSE,
                          !.fetchOutfits.pc = "done"]
           ELSE [s EXCEPT !.loading = FALSE, !.fetchOutfits.pc = "done"]

\* Mutant: the list is kept as it is.
keepOutfits(prev, outfitId) == prev

\* prev.filter((o) => o._id !== outfitId)
removeOutfit(prev, outfitId) ==
  SelectSeq(prev, LAMBDA o : o._id # outfitId)

\* The array without its i-th element.
RemoveAt(a, i) == SubSeq(a, 1, i - 1) \o SubSeq(a, i + 1, Len(a))

\* deleteOutfit(outfitId) up to its await: the DELETE request is sent.
deleteOutfit(s, outfitId) ==
  [s EXCEPT !.deleteOutfit = Append(@, [outfitId |-> outfitId, response |-> Null])]

\* deleteOutfit after its await, for the i-th call in flight: the rest of
\* the try block, or catch.
deleteOutfitResume(s, i) ==
  LET d == s.deleteOutfit[i]
  IN  IF Fulfilled(d.response)
      THEN [s EXCEPT !.outfits = removeOutfit(@, d.outfitId),
                     !.menuVisible = FALSE,
                     !.deleteOutfit = RemoveAt(@, i)]
      ELSE [s EXCEPT !.alert = AlertOf("Error"),
                     !.deleteOutfit = RemoveAt(@, i)]

\* Mutant: the month after next.
skipMonth(s, tz) ==
  [s EXCEPT !.currentMonth = NewDate(getFullYear(@, tz), getMonth(@, tz) + 2, 1, tz)]

prevMonth(s, tz) ==
  [s EXCEPT !.currentMonth = NewDate(getFullYear(@, tz), getMonth(@, tz) - 1, 1, tz)]

nextMonth(s, tz) ==
  [s EXCEPT !.currentMonth = NewDate(getFullYear(@, tz), getMonth(@, tz) + 1, 1, tz)]

\* The arrows of the day view: selectedDate a week back, a week on.
prevWeek(s, tz) ==
  [s EXCEPT !.selectedDate = setDate(@, getDate(@, tz) - 7, tz)]

nextWeek(s, tz) ==
  [s EXCEPT !.selectedDate = setDate(@, getDate(@, tz) + 7, tz)]

\* Mutant: the month view opens on the month it showed last.
showMonthAsLeft(s, tz) == [s EXCEPT !.viewMode = "month"]

\* Tapping the month label of the day view.
showMonth(s, tz) ==
  [s EXCEPT !.currentMonth = NewDate(getFullYear(s.selectedDate, tz),
                                     getMonth(s.selectedDate, tz), 1, tz),
            !.viewMode = "month"]

\* Tapping a day of the week strip.
selectWeekDay(s, day) == [s EXCEPT !.selectedDate = day]

\* Tapping a day cell of the month grid.
selectGridDay(s, day) == [s EXCEPT !.selectedDate = day, !.viewMode = "day"]

\* The "Day view" link of the month view.
backToDay(s) == [s EXCEPT !.viewMode = "day"]

(***************************************************************************)
(* analytics.tsx: AnalyticsScreen.                                         *)
(***************************************************************************)

\* The six collections, in the order fetchAll requests and stores them.
Collections ==
  <<"overview", "categories", "colours", "mostWorn", "leastWorn", "neverWorn">>

\* The component after mounting: the useState values, and fetchAll, called
\* by the effect, awaiting the token; stored is the number of
\* collections it has stored.
AnalyticsScreen ==
  [name       |-> "AnalyticsScreen",
   overview   |-> Null,
   categories |-> <<>>,
   colours    |-> <<>>,
   mostWorn   |-> <<>>,
   leastWorn  |-> <<>>,
   neverWorn  |-> <<>>,
   loading    |-> TRUE,
   fetchAll   |-> [pc |-> "await getItemAsync", token |-> Null,
                   responses |-> [i \in 1..Len(Collections) |-> Null],
                   body |-> Null, stored |-> 0]]

\* if (loading) return <ActivityIndicator/>; otherwise the derived values
\* and the sections drawn from them.
renderAnalyticsScreen(s) ==
  IF s.loading THEN Spinner
  ELSE [view         |-> "analytics",
        totalItems   |-> totalItems(s.overview),
        categoryRows |-> categoryRows(s.overview, s.categories),
        topColours   |-> topColours(s.colours),
        pieSlices    |-> buildPieSlices(colourPieData(s.colours))]

\* Promise.all(promises): rejected as soon as one of them is, fulfilled once
\* all of them are.
PromiseAll(promises) ==
  IF \E i \in DOMAIN promises : Rejected(promises[i])
  THEN (CHOOSE p \in {promises[i] : i \in DOMAIN promises} : Rejected(p))
  ELSE IF \A i \in DOMAIN promises : Fulfilled(promises[i])
       THEN Returned([i \in DOMAIN promises |-> promises[i].returned])
       ELSE Null

\* The promise fetchAll is waiting for.
fetchAllAwaited(s) ==
  LET f == s.fetchAll
  IN  IF f.pc = "await getItemAsync" THEN f.token
      ELSE IF f.pc = "await Promise.all" THEN PromiseAll(f.responses)
      ELSE IF f.pc = "await json" THEN f.body
      ELSE Null

\* Mutant: the function ends without clearing the flag.
fetchAllEnd(s) == [s EXCEPT !.fetchAll.pc = "done"]

\* catch (e) { console.error(...) } finally { setLoading(false) }
fetchAllFinally(s) == [s EXCEPT !.loading = FALSE, !.fetchAll.pc = "done"]

\* setOverview(await overviewRes.json()); ... setNeverWorn(await neverRes.json());
\* one line of these: the value is stored, and the next body is read or the
\* try block ends.
fetchAllStore(s) ==
  LET f == s.fetchAll
      t == [s EXCEPT ![Collections[f.stored + 1]] = f.body.returned,
                     !.fetchAll.body = Null,
                     !.fetchAll.stored = @ + 1]
  IN  IF t.fetchAll.stored < Len(Collections) THEN t ELSE fetchAllFinally(t)

\* fetchAll after an await.
fetchAllResume(s) ==
  LET f == s.fetchAll
  IN  IF Rejected(fetchAllAwaited(s)) THEN fetchAllFinally(s)
      ELSE IF f.pc = "await getItemAsync" THEN [s EXCEPT !.fetchAll.pc = "await Promise.all"]
      ELSE IF f.pc = "await Promise.all" THEN [s EXCEPT !.fetchAll.pc = "await json"]
      ELSE fetchAllStore(s)

(***************************************************************************)
(* settings.tsx: SettingsScreen.  secureStore is the set of keys the       *)
(* device's SecureStore holds, router the calls made on the router.        *)
(***************************************************************************)

\* The component after mounting: user, fetchUser, called by the effect,
\* awaiting the token, and the onPress calls of the alert's "Log out"
\* button that are awaiting SecureStore.deleteItemAsync.
SettingsScreen ==
  [name        |-> "SettingsScreen",
   user        |-> Null,
   alert       |-> Null,
   fetchUser   |-> [pc |-> "await getItemAsync", awaited |-> Null],
   logout      |-> <<>>,
   secureStore |-> {"userToken"},
   router      |-> <<>>]

\* fetchUser after an await: the next line of the try block, or catch.
fetchUserResume(s) ==
  LET f == s.fetchUser
  IN  IF Rejected(f.awaited) THEN [s EXCEPT !.fetchUser = [pc |-> "done", awaited |-> Null]]
      ELSE IF f.pc = "await getItemAsync"
      THEN [s EXCEPT !.fetchUser = [pc |-> "await fetch", awaited |-> Null]]
      ELSE IF f.pc = "await fetch"
      THEN [s EXCEPT !.fetchUser = [pc |-> "await json", awaited |-> Null]]
      ELSE [s EXCEPT !.user = f.awaited.returned,
                     !.fetchUser = [pc |-> "done", awaited |-> Null]]

\* handleLogout: the alert with its Cancel and Log out buttons.
handleLogout(s) == [s EXCEPT !.alert = AlertOf("Log out")]

\* The Log out button's onPress up to its await: deleteItemAsync is called.
logoutPress(s) ==
  [s EXCEPT !.alert = Null, !.logout = Append(@, [deleteItemAsync |-> Null])]

\* SecureStore.deleteItemAsync(key) done: the key is gone.
deleteItem(store, key) == store \ {key}

\* router.replace(route)
replace(router, route) == Append(router, [method |-> "replace", route |-> route])

\* Mutant: the redirect does not depend on how the deletion ended.
logoutRedirect(s, i) ==
  [s EXCEPT !.router = replace(@, "login"), !.logout = RemoveAt(@, i)]

\* The Log out button's onPress after its await, for the i-th call in
\* flight: the redirect, or, when deleteItemAsync rejected, nothing (the
\* rejection is not handled).
logoutResume(s, i) ==
  IF Fulfilled(s.logout[i].deleteItemAsync)
  THEN [s EXCEPT !.router = replace(@, "login"), !.logout = RemoveAt(@, i)]
  ELSE [s EXCEPT !.logout = RemoveAt(@, i)]

(***************************************************************************)
(* _layout.tsx: ExpandableFAB.  The handlers on screen are those of the    *)
(* last render: they read the value `open` had when the component was      *)
(* rendered (rendered.open), whatever setOpen has been given since.        *)
(***************************************************************************)

\* The component after mounting.  toggles counts the calls of toggleMenu,
\* timers holds the routes of the setTimeout callbacks still to run.
ExpandableFAB ==
  [name      |-> "ExpandableFAB",
   open      |-> FALSE,
   rendered  |-> [open |-> FALSE],
   animation |-> 0,
   toggles   |-> 0,
   timers    |-> <<>>,
   addItems  |-> <<>>,
   alert     |-> Null,
   router    |-> <<>>]

\* The component renders again with the state as it is now.
render(s) == [s EXCEPT !.rendered = [open |-> s.open]]

\* Animated.spring(animation, {toValue: open ? 0 : 1}).start(); setOpen(!open);
toggleMenu(s) ==
  [s EXCEPT !.animation = IF s.rendered.open THEN 0 ELSE 1,
            !.open = ~s.rendered.open,
            !.toggles = @ + 1]

\* toggleMenu(); setTimeout(() => router.push(route), 200);
navigateAndClose(s, route) == [toggleMenu(s) EXCEPT !.timers = Append(@, route)]

\* router.push(route)
push(router, route) == Append(router, [method |-> "push", route |-> route])

\* The callback of the first timer runs.
timerFires(s) == [s EXCEPT !.router = push(@, Head(s.timers)), !.timers = Tail(@)]

\* handleAddItems up to its first await.
handleAddItems(s) ==
  [toggleMenu(s) EXCEPT !.addItems = Append(@, [pc |-> "await permission", awaited |-> Null])]

\* handleAddItems after an await, for the i-th call in flight.  A rejected
\* promise ends the call (nothing catches it).
handleAddItemsResume(s, i) ==
  LET a == s.addItems[i]
  IN  IF Rejected(a.awaited) THEN [s EXCEPT !.addItems = RemoveAt(@, i)]
      ELSE IF a.pc = "await permission"
      THEN IF a.awaited.returned.status # "granted"
           THEN [s EXCEPT !.alert = AlertOf("Permission denied"),
                          !.addItems = RemoveAt(@, i)]
           ELSE [s EXCEPT !.addItems[i] = [pc |-> "await camera", awaited |-> Null]]
      ELSE IF a.awaited.returned.canceled
           THEN [s EXCEPT !.addItems = RemoveAt(@, i)]
           ELSE [s EXCEPT !.router = push(@, "/features/add-items"),
                          !.addItems = RemoveAt(@, i)]

(***************************************************************************)
(* Bounds and inputs.                                                      *)
(***************************************************************************)

\* Device time zones: TzWest hours west of UTC, UTC, TzEast hours east.
TzWest == 5
TzEast == 2
TZOffsets == {0 - TzWest, 0, TzEast}

\* Instants compared by isSameDay: every hour from 2025-06-11T00:00Z on.
KeySpanHours == 60
KeyInstants == {MakeDay(2025, 5, 11) * HoursPerDay + h : h \in 0..(KeySpanHours - 1)}

\* Years whose months are laid out: century years and GridFirstYear onward.
GridYearSpan == 4
GridYears == {1900, 2000, 2100} \cup {2023 + i : i \in 0..(GridYearSpan - 1)}

\* Dates whose week is taken: every hour from 2023-12-20T00:00Z on, across
\* the turn of the year and 2024-02-29.
WeekSpanDays == 80
WeekInstants ==
  {MakeDay(2023, 11, 20) * HoursPerDay + h : h \in 0..(WeekSpanDays * HoursPerDay - 1)}

\* Outfit arrays hold at most MaxOutfits entries.
MaxOutfits == 3

IsoDate(y, m, d, h) == [Y |-> y, M |-> m, D |-> d, h |-> h]

\* Garment ids "a", "b", "c" and "1".
IdA == <<97>>
IdB == <<98>>
IdC == <<99>>
Id1 == <<49>>

GarmentIdLists == {<<IdA, IdB>>, <<IdB, IdA>>, <<IdC>>, <<Id1>>}

MonthDates ==
  {IsoDate(2025, 3, 1, 0), IsoDate(2025, 3, 5, 0), IsoDate(2025, 3, 10, 0),
   IsoDate(2024, 3, 5, 0)}

IndexDates ==
  {IsoDate(2025, 3, 1, 0), IsoDate(2025, 3, 1, 12), IsoDate(2025, 3, 5, 0),
   IsoDate(2025, 3, 4, 23)}

\* An OutfitEntry: the i-th document of the fetched array.
OutfitEntry(i, date, garmentIds) ==
  [_id |-> i, date |-> date, garmentIds |-> garmentIds, previewImage |-> i]

\* The array whose i-th outfit has the date and the id list f[i] gives.
OutfitArray(f) == [i \in DOMAIN f |-> OutfitEntry(i, f[i][1], f[i][2])]

\* Streak inputs: one outfit a day on any subset of the StreakSpanDays days
\* that end on 2025-06-12, and the clock within StreakClockHours hours from
\* 2025-06-11T18:00Z.
StreakSpanDays == 5
StreakClockHours == 36
StreakDay(i) == CivilFromDay(MakeDay(2025, 5, 12) - i)
StreakDates == [i \in 0..(StreakSpanDays - 1) |->
                 IsoDate(StreakDay(i).year, StreakDay(i).month + 1, StreakDay(i).date, 0)]
StreakClock == {MakeDay(2025, 5, 11) * HoursPerDay + 18 + h : h \in 0..(StreakClockHours - 1)}

\* The outfits dated on the days of `days`, oldest first.
RECURSIVE StreakOutfits(_, _)
StreakOutfits(days, i) ==
  IF i < 0 THEN <<>>
  ELSE LET rest == StreakOutfits(days, i - 1)
       IN  IF i \in days
           THEN <<OutfitEntry(i, StreakDates[i], <<IdA>>)>> \o rest
           ELSE rest

\* Analytics snapshots: up to MaxCategories category records and MaxColours
\* colour records, in any order, with counts up to MaxCount; HalfCount of
\* HalfCount + HalfRest garments is a share that falls on a half percent.
MaxCategories == 3
MaxColours == 3
MaxCount == 3
HalfCount == 23
HalfRest == 17
CategoryNames == {Tops, Shoes, Bags}
CountValues == (0..MaxCount) \cup {HalfRest, HalfCount}
ColourLabels ==
  { [colour |-> "#000000", label |-> "Black"],
    [colour |-> "#FFFFFF", label |-> "White"],
    [colour |-> "", label |-> "Multi"] }
ColourStat(c, count) == [colour |-> c.colour, label |-> c.label, count |-> count]
Injective(f) == \A i, j \in DOMAIN f : f[i] = f[j] => i = j
RECURSIVE SumOf(_)
SumOf(counts) == IF counts = <<>> THEN 0 ELSE Head(counts) + SumOf(Tail(counts))

\* Records as they arrive: a date that parses or one that does not.
BadDate == [text |-> "not-a-date"]
RecordDates == {IsoDate(2025, 3, 1, 0), IsoDate(2025, 3, 5, 0), BadDate}
RecordIdLists == {<<IdA, IdB>>, <<IdC>>}

\* Objects handed to the helpers: a date, an outfits array whose outfits
\* refer to their garmentIds arrays, a colours array.
FrameDates == {IsoDate(2025, 3, 1, 0), IsoDate(2025, 3, 5, 0)}
FrameIdLists == {<<IdA, IdB>>, <<IdB, IdA>>, <<IdC>>}
OutfitsHeap(f) ==
  [r \in {Ref("outfits", 0)} \cup {Ref("garmentIds", i) : i \in DOMAIN f} |->
    IF r = Ref("outfits", 0)
    THEN [i \in DOMAIN f |-> OutfitEntry(i, f[i][1], Ref("garmentIds", i))]
    ELSE f[r.of][2]]

\* The calendar screen is mounted at 2024-12-31T22:00Z, which is already
\* 2025 east of UTC.  The server holds no outfit, one, or two of the same
\* day and one of the next; at most MaxRequests DELETE requests are in
\* flight; the user moves selectedDate up to NavSpanDays days on from the
\* mounting day and the month view up to MonthSteps months on from the
\* mounting month.
MaxRequests == 1
NavSpanDays == 7
MonthSteps == 1
ClockNow == MakeDay(2024, 11, 31) * HoursPerDay + 22
FetchedOutfits ==
  { <<>>,
    <<OutfitEntry(1, IsoDate(2024, 12, 31, 10), <<IdA>>)>>,
    <<OutfitEntry(1, IsoDate(2024, 12, 31, 10), <<IdA>>),
      OutfitEntry(2, IsoDate(2025, 1, 1, 10), <<IdB>>),
      OutfitEntry(3, IsoDate(2024, 12, 31, 12), <<IdA>>)>> }
\* What the analytics endpoints answer with.
Snapshots(collection) ==
  IF collection = "overview"
  THEN {[totalItems |-> 2, wardrobeUsagePercent |-> 50, outfitsWorn |-> 1, totalOutfits |-> 2]}
  ELSE IF collection = "categories"
  THEN {<<[name |-> Tops, count |-> 2]>>}
  ELSE IF collection = "colours"
  THEN {<<[colour |-> "#000000", label |-> "Black", count |-> 2]>>}
  ELSE IF collection = "neverWorn"
  THEN {<<>>, <<[_id |-> 2, wearCount |-> 0]>>}
  ELSE {<<[_id |-> 1, wearCount |-> 3]>>}

\* The floating menu: at most MaxToggles calls of toggleMenu in all.
MaxToggles == 3
Routes == {"/outfit", "/lookbook", "/premium"}

LocalDay(t, tz) == Day(LocalTime(t, tz))
InNavSpan(t, tz) ==
  /\ LocalDay(ClockNow, tz) <= LocalDay(t, tz)
  /\ LocalDay(t, tz) - LocalDay(ClockNow, tz) <= NavSpanDays
MonthNumber(t, tz) == getFullYear(t, tz) * 12 + getMonth(t, tz)
InMonthSteps(t, tz) ==
  /\ MonthNumber(ClockNow, tz) <= MonthNumber(t, tz)
  /\ MonthNumber(t, tz) - MonthNumber(ClockNow, tz) <= MonthSteps

(***************************************************************************)
(* Specifications: the helpers applied to inputs drawn from the bounds.    *)
(***************************************************************************)

\* Each behaviour applies one helper once, to one input.
Idle == [op |-> "none"]

Init ==
  /\ tzOffset \in TZOffsets
  /\ call = Idle
  /\ ret = Null
  /\ screen = Null

CallIsSameDay ==
  /\ call = Idle
  /\ \E a \in KeyInstants, b \in KeyInstants :
    /\ call' = [op |-> "isSameDay", a |-> a, b |-> b]
    /\ ret' = isSameDay(a, b)
    /\ UNCHANGED <<tzOffset, screen>>

CallGetMonthGrid ==
  /\ call = Idle
  /\ \E year \in GridYears, month \in 0..11 :
    /\ call' = [op |-> "getMonthGrid", year |-> year, month |-> month]
    /\ ret' = getMonthGrid(year, month, tzOffset)
    /\ UNCHANGED <<tzOffset, screen>>

CallGetWeekDays ==
  /\ call = Idle
  /\ \E date \in WeekInstants :
    /\ call' = [op |-> "getWeekDays", date |-> date]
    /\ ret' = getWeekDays(date, tzOffset)
    /\ UNCHANGED <<tzOffset, screen>>

NextDates == CallIsSameDay \/ CallGetMonthGrid \/ CallGetWeekDays

SpecDates == Init /\ [][NextDates]_vars

CallOutfitMap ==
  /\ call = Idle
  /\ \E n \in 0..MaxOutfits : \E f \in [1..n -> IndexDates \X {<<IdA>>}] :
       LET outfits == OutfitArray(f)
       IN  /\ call' = [op |-> "outfitMap", outfits |-> outfits]
           /\ ret' = outfitMap(outfits)
           /\ UNCHANGED <<tzOffset, screen>>

NextIndex == CallOutfitMap

SpecIndex == Init /\ [][NextIndex]_vars

CallGetMostWornThisMonth ==
  /\ call = Idle
  /\ \E n \in 0..MaxOutfits : \E f \in [1..n -> MonthDates \X GarmentIdLists] :
       LET outfits      == OutfitArray(f)
           currentMonth == NewDate(2025, 2, 1, tzOffset)
       IN  /\ call' = [op |-> "getMostWornThisMonth", outfits |-> outfits,
                       currentMonth |-> currentMonth]
           /\ ret' = getMostWornThisMonth(outfits, currentMonth, tzOffset)
           /\ UNCHANGED <<tzOffset, screen>>

NextMostWorn == CallGetMostWornThisMonth

SpecMostWorn == Init /\ [][NextMostWorn]_vars

CallGetStreak ==
  /\ call = Idle
  /\ \E days \in SUBSET (0..(StreakSpanDays - 1)), now \in StreakClock :
    LET outfits == StreakOutfits(days, StreakSpanDays - 1)
    IN  /\ call' = [op |-> "getStreak", outfits |-> outfits, now |-> now]
        /\ ret' = getStreak(outfitMap(outfits), now, tzOffset)
        /\ UNCHANGED <<tzOffset, screen>>

NextStreak == CallGetStreak

SpecStreak == Init /\ [][NextStreak]_vars

\* getStreak run one loop iteration at a time over the component's
\* outfitMap: `checking` and `streak` are its locals, pc the position:
\* inside while (true), or at return streak.
StreakBegin ==
  /\ call = Idle
  /\ \E days \in SUBSET (0..(StreakSpanDays - 1)), now \in StreakClock :
       LET outfits == StreakOutfits(days, StreakSpanDays - 1)
       IN  call' = [op |-> "getStreak", pc |-> "while", outfits |-> outfits,
                    outfitMap |-> outfitMap(outfits),
                    now |-> now, checking |-> now, streak |-> 0]
  /\ UNCHANGED <<tzOffset, ret, screen>>

\* if (outfitMap[key]) { streak++; checking.setDate(checking.getDate() - 1); }
StreakCount ==
  /\ call.op = "getStreak" /\ call.pc = "while"
  /\ toDateKey(call.checking) \in DOMAIN call.outfitMap
  /\ call' = [call EXCEPT !.streak = call.streak + 1,
                          !.checking = stepBack(call.checking, tzOffset)]
  /\ UNCHANGED <<tzOffset, ret, screen>>

\* else { break; }  return streak;
StreakBreak ==
  /\ call.op = "getStreak" /\ call.pc = "while"
  /\ toDateKey(call.checking) \notin DOMAIN call.outfitMap
  /\ call' = [call EXCEPT !.pc = "return"]
  /\ UNCHANGED <<tzOffset, ret, screen>>

NextStreakLoop == StreakBegin \/ StreakCount \/ StreakBreak

\* The loop is synchronous code: once begun it keeps running.
SpecStreakLoop == Init /\ [][NextStreakLoop]_vars /\ WF_call(StreakCount \/ StreakBreak)

\* AnalyticsScreen renders its category rows from one fetched snapshot:
\* the overview counts every garment the categories count.  Before any
\* snapshot has arrived overview is null and categories is [].
RenderCategoryRows ==
  /\ call = Idle
  /\ \E n \in 0..MaxCategories :
       \E names \in [1..n -> CategoryNames], counts \in [1..n -> CountValues] :
         /\ Injective(names)
         /\ \E overview \in {[totalItems |-> SumOf(counts)]} \cup (IF n = 0 THEN {Null} ELSE {}) :
              LET categories == [i \in 1..n |-> [name |-> names[i], count |-> counts[i]]]
              IN  /\ call' = [op |-> "categoryRows", overview |-> overview,
                              categories |-> categories]
                  /\ ret' = categoryRows(overview, categories)
  /\ UNCHANGED <<tzOffset, screen>>

\* AnalyticsScreen derives the colour chart from its colours.
RenderColourChart ==
  /\ call = Idle
  /\ \E n \in 0..MaxColours :
       \E labels \in [1..n -> ColourLabels], counts \in [1..n -> 0..MaxCount] :
         /\ Injective(labels)
         /\ LET colours == [i \in 1..n |-> ColourStat(labels[i], counts[i])]
            IN  /\ call' = [op |-> "colourChart", colours |-> colours]
                /\ ret' = [pieSlices  |-> buildPieSlices(colourPieData(colours)),
                           topColours |-> topColours(colours)]
  /\ UNCHANGED <<tzOffset, screen>>

NextAnalytics == RenderCategoryRows \/ RenderColourChart

SpecAnalytics == Init /\ [][NextAnalytics]_vars

\* CalendarScreen computes outfitMap from the fetched records.
BuildOutfitMap ==
  /\ call = Idle
  /\ \E n \in 0..MaxOutfits : \E f \in [1..n -> RecordDates \X {<<IdA>>}] :
       LET outfits == OutfitArray(f)
       IN  /\ call' = [op |-> "outfitMap", outfits |-> outfits]
           /\ ret' = outfitMapRun(outfits)
  /\ UNCHANGED <<tzOffset, screen>>

\* getMostWornThisMonth() over the fetched records, the calendar showing
\* March 2025.
MostWornOfRecords ==
  /\ call = Idle
  /\ \E n \in 0..MaxOutfits : \E f \in [1..n -> RecordDates \X RecordIdLists] :
       LET outfits      == OutfitArray(f)
           currentMonth == NewDate(2025, 2, 1, tzOffset)
       IN  /\ call' = [op |-> "getMostWornThisMonth", outfits |-> outfits,
                       currentMonth |-> currentMonth]
           /\ ret' = getMostWornThisMonth(outfits, currentMonth, tzOffset)
  /\ UNCHANGED <<tzOffset, screen>>

NextRecords == BuildOutfitMap \/ MostWornOfRecords \/ CallGetStreak

SpecRecords == Init /\ [][NextRecords]_vars

\* The helpers run on objects: call.heap is the heap before, ret.heap the
\* heap after.
RunGetWeekDays ==
  /\ call = Idle
  /\ \E date \in WeekInstants :
       LET heap == [r \in {Ref("date", 0)} |-> date]
       IN  /\ call' = [op |-> "getWeekDays", heap |-> heap]
           /\ ret' = getWeekDaysOn(heap, Ref("date", 0), tzOffset)
  /\ UNCHANGED <<tzOffset, screen>>

RunOutfitMap ==
  /\ call = Idle
  /\ \E n \in 0..MaxOutfits : \E f \in [1..n -> FrameDates \X FrameIdLists] :
       LET heap == OutfitsHeap(f)
       IN  /\ call' = [op |-> "outfitMap", heap |-> heap]
           /\ ret' = outfitMapOn(heap, Ref("outfits", 0))
  /\ UNCHANGED <<tzOffset, screen>>

RunGetMostWornThisMonth ==
  /\ call = Idle
  /\ \E n \in 0..MaxOutfits : \E f \in [1..n -> FrameDates \X FrameIdLists] :
       LET heap == OutfitsHeap(f)
       IN  /\ call' = [op |-> "getMostWornThisMonth", heap |-> heap]
           /\ ret' = getMostWornThisMonthOn(heap, Ref("outfits", 0),
                                            NewDate(2025, 2, 1, tzOffset), tzOffset)
  /\ UNCHANGED <<tzOffset, screen>>

RunTopColours ==
  /\ call = Idle
  /\ \E n \in 0..MaxColours :
       \E labels \in [1..n -> ColourLabels], counts \in [1..n -> 0..MaxCount] :
         /\ Injective(labels)
         /\ LET heap == [r \in {Ref("colours", 0)} |->
                          [i \in 1..n |-> ColourStat(labels[i], counts[i])]]
            IN  /\ call' = [op |-> "topColours", heap |-> heap]
                /\ ret' = topColoursOn(heap, Ref("colours", 0))
  /\ UNCHANGED <<tzOffset, screen>>

NextObjects == RunGetWeekDays \/ RunOutfitMap \/ RunGetMostWornThisMonth \/ RunTopColours

SpecObjects == Init /\ [][NextObjects]_vars

(***************************************************************************)
(* The app: one component is mounted and runs; the network, the user and   *)
(* the timers take steps of their own.                                     *)
(***************************************************************************)

\* The code after an await is a microtask: once the awaited promise has
\* settled it runs before the next event is handled.
CalendarResuming(s) ==
  \/ s.fetchOutfits.pc = "await fetch" /\ Settled(s.fetchOutfits.response)
  \/ s.fetchOutfits.pc = "await json" /\ Settled(s.fetchOutfits.body)
  \/ \E i \in 1..Len(s.deleteOutfit) : Settled(s.deleteOutfit[i].response)
CalendarEvent(s) == s.name = "CalendarScreen" /\ ~CalendarResuming(s)

\* What the calendar screen lets the user touch: nothing while the spinner
\* shows, only the alert while one is up, only the modal while it is open.
MenuShown(s) == s.viewMode = "day" /\ s.menuVisible /\ HasSelectedOutfit(s)
Touchable(s) ==
  /\ CalendarEvent(s)
  /\ renderCalendarScreen(s) # Spinner
  /\ s.alert = Null
DayViewTouchable(s) ==
  Touchable(s) /\ renderCalendarScreen(s).view = "day" /\ ~MenuShown(s)
MonthViewTouchable(s) ==
  Touchable(s) /\ renderCalendarScreen(s).view = "month"

\* The GET request settles.
FetchOutfitsResponse ==
  /\ CalendarEvent(screen)
  /\ screen.fetchOutfits.pc = "await fetch"
  /\ screen.fetchOutfits.response = Null
  /\ \E r \in {Returned(Response(TRUE)), Thrown("TypeError")} :
       screen' = [screen EXCEPT !.fetchOutfits.response = r]
  /\ UNCHANGED <<tzOffset, call, ret>>

\* response.json() settles.
FetchOutfitsBody ==
  /\ CalendarEvent(screen)
  /\ screen.fetchOutfits.pc = "await json"
  /\ screen.fetchOutfits.body = Null
  /\ \E r \in {Returned(data) : data \in FetchedOutfits} \cup {Thrown("SyntaxError")} :
       screen' = [screen EXCEPT !.fetchOutfits.body = r]
  /\ UNCHANGED <<tzOffset, call, ret>>

FetchOutfitsResume ==
  /\ screen.name = "CalendarScreen"
  /\ screen.fetchOutfits.pc # "done"
  /\ Settled(IF screen.fetchOutfits.pc = "await fetch"
             THEN screen.fetchOutfits.response ELSE screen.fetchOutfits.body)
  /\ screen' = fetchOutfitsResume(screen)
  /\ UNCHANGED <<tzOffset, call, ret>>

TapPrevWeek ==
  /\ DayViewTouchable(screen)
  /\ InNavSpan(prevWeek(screen, tzOffset).selectedDate, tzOffset)
  /\ screen' = prevWeek(screen, tzOffset)
  /\ UNCHANGED <<tzOffset, call, ret>>

TapNextWeek ==
  /\ DayViewTouchable(screen)
  /\ InNavSpan(nextWeek(screen, tzOffset).selectedDate, tzOffset)
  /\ screen' = nextWeek(screen, tzOffset)
  /\ UNCHANGED <<tzOffset, call, ret>>

TapMonthLabel ==
  /\ DayViewTouchable(screen)
  /\ screen' = showMonth(screen, tzOffset)
  /\ UNCHANGED <<tzOffset, call, ret>>

TapWeekDay ==
  /\ DayViewTouchable(screen)
  /\ \E i \in 1..7 :
       LET day == getWeekDays(screen.selectedDate, tzOffset)[i]
       IN  /\ InNavSpan(day, tzOffset)
           /\ screen' = selectWeekDay(screen, day)
  /\ UNCHANGED <<tzOffset, call, ret>>

TapMenuButton ==
  /\ DayViewTouchable(screen)
  /\ HasSelectedOutfit(screen)
  /\ screen' = [screen EXCEPT !.menuVisible = TRUE]
  /\ UNCHANGED <<tzOffset, call, ret>>

\* The overlay of the modal, or the back button.
CloseMenu ==
  /\ Touchable(screen)
  /\ MenuShown(screen)
  /\ screen' = [screen EXCEPT !.menuVisible = FALSE]
  /\ UNCHANGED <<tzOffset, call, ret>>

TapDeleteOutfit ==
  /\ Touchable(screen)
  /\ MenuShown(screen)
  /\ screen' = [screen EXCEPT !.alert = DeleteAlert(selectedOutfit(screen)._id)]
  /\ UNCHANGED <<tzOffset, call, ret>>

\* Cancel of the delete alert, OK of the error alert.
DismissAlert ==
  /\ CalendarEvent(screen)
  /\ screen.alert # Null
  /\ screen' = [screen EXCEPT !.alert = Null]
  /\ UNCHANGED <<tzOffset, call, ret>>

ConfirmDelete ==
  /\ CalendarEvent(screen)
  /\ screen.alert # Null
  /\ screen.alert.title = "Delete Outfit"
  /\ Len(screen.deleteOutfit) < MaxRequests
  /\ screen' = deleteOutfit([screen EXCEPT !.alert = Null], screen.alert.outfitId)
  /\ UNCHANGED <<tzOffset, call, ret>>

\* A DELETE request settles: the server deleted the outfit, or answered with
\* an error status, or the request failed.
DeleteOutfitResponse ==
  /\ CalendarEvent(screen)
  /\ \E i \in 1..Len(screen.deleteOutfit) :
       /\ screen.deleteOutfit[i].response = Null
       /\ \E r \in {Returned(Response(TRUE)), Returned(Response(FALSE)), Thrown("TypeError")} :
            screen' = [screen EXCEPT !.deleteOutfit[i].response = r]
  /\ UNCHANGED <<tzOffset, call, ret>>

DeleteOutfitResume ==
  /\ screen.name = "CalendarScreen"
  /\ \E i \in 1..Len(screen.deleteOutfit) :
       /\ Settled(screen.deleteOutfit[i].response)
       /\ screen' = deleteOutfitResume(screen, i)
  /\ UNCHANGED <<tzOffset, call, ret>>

TapPrevMonth ==
  /\ MonthViewTouchable(screen)
  /\ InMonthSteps(prevMonth(screen, tzOffset).currentMonth, tzOffset)
  /\ screen' = prevMonth(screen, tzOffset)
  /\ UNCHANGED <<tzOffset, call, ret>>

TapNextMonth ==
  /\ MonthViewTouchable(screen)
  /\ InMonthSteps(nextMonth(screen, tzOffset).currentMonth, tzOffset)
  /\ screen' = nextMonth(screen, tzOffset)
  /\ UNCHANGED <<tzOffset, call, ret>>

TapDayViewLink ==
  /\ MonthViewTouchable(screen)
  /\ screen' = backToDay(screen)
  /\ UNCHANGED <<tzOffset, call, ret>>

TapGridDay ==
  /\ MonthViewTouchable(screen)
  /\ LET grid == getMonthGrid(getFullYear(screen.currentMonth, tzOffset),
                              getMonth(screen.currentMonth, tzOffset), tzOffset)
     IN  \E i \in 1..Len(grid) :
           /\ grid[i] # Null
           /\ InNavSpan(grid[i].date, tzOffset)
           /\ screen' = selectGridDay(screen, grid[i].date)
  /\ UNCHANGED <<tzOffset, call, ret>>

NextCalendarScreen ==
  \/ FetchOutfitsResponse \/ FetchOutfitsBody \/ FetchOutfitsResume
  \/ TapPrevWeek \/ TapNextWeek \/ TapMonthLabel \/ TapWeekDay
  \/ TapMenuButton \/ CloseMenu \/ TapDeleteOutfit \/ DismissAlert \/ ConfirmDelete
  \/ DeleteOutfitResponse \/ DeleteOutfitResume
  \/ TapPrevMonth \/ TapNextMonth \/ TapDayViewLink \/ TapGridDay

\* No code of the analytics screen is waiting to run.
AnalyticsEvent(s) == s.name = "AnalyticsScreen" /\ ~Settled(fetchAllAwaited(s))

\* SecureStore.getItemAsync('userToken') settles.
FetchAllToken ==
  /\ AnalyticsEvent(screen)
  /\ screen.fetchAll.pc = "await getItemAsync"
  /\ \E r \in {Returned("jwt"), Thrown("Error")} :
       screen' = [screen EXCEPT !.fetchAll.token = r]
  /\ UNCHANGED <<tzOffset, call, ret>>

\* One of the six GET requests settles.
FetchAllResponse ==
  /\ AnalyticsEvent(screen)
  /\ screen.fetchAll.pc # "await getItemAsync"
  /\ \E i \in 1..Len(Collections) :
       /\ screen.fetchAll.responses[i] = Null
       /\ \E r \in {Returned(Response(TRUE)), Thrown("TypeError")} :
            screen' = [screen EXCEPT !.fetchAll.responses[i] = r]
  /\ UNCHANGED <<tzOffset, call, ret>>

\* The response.json() awaited settles.
FetchAllBody ==
  /\ AnalyticsEvent(screen)
  /\ screen.fetchAll.pc = "await json"
  /\ \E r \in {Returned(v) : v \in Snapshots(Collections[screen.fetchAll.stored + 1])}
              \cup {Thrown("SyntaxError")} :
       screen' = [screen EXCEPT !.fetchAll.body = r]
  /\ UNCHANGED <<tzOffset, call, ret>>

FetchAllResume ==
  /\ screen.name = "AnalyticsScreen"
  /\ Settled(fetchAllAwaited(screen))
  /\ screen' = fetchAllResume(screen)
  /\ UNCHANGED <<tzOffset, call, ret>>

NextAnalyticsScreen ==
  FetchAllToken \/ FetchAllResponse \/ FetchAllBody \/ FetchAllResume

\* No code of the settings screen is waiting to run.
SettingsResuming(s) ==
  \/ s.fetchUser.pc # "done" /\ Settled(s.fetchUser.awaited)
  \/ \E i \in 1..Len(s.logout) : Settled(s.logout[i].deleteItemAsync)
SettingsEvent(s) == s.name = "SettingsScreen" /\ ~SettingsResuming(s)

\* The screen is there to be touched until the router has replaced it.
SettingsTouchable(s) == SettingsEvent(s) /\ s.router = <<>> /\ s.alert = Null

\* What fetchUser awaits settles: the token read, the request, the body.
FetchUserSettles ==
  /\ SettingsEvent(screen)
  /\ screen.fetchUser.pc # "done"
  /\ \E r \in {Thrown("Error"),
               IF screen.fetchUser.pc = "await getItemAsync"
               THEN Returned(IF "userToken" \in screen.secureStore THEN "jwt" ELSE "null")
               ELSE IF screen.fetchUser.pc = "await fetch" THEN Returned(Response(TRUE))
               ELSE Returned([_id |-> 1])} :
       screen' = [screen EXCEPT !.fetchUser.awaited = r]
  /\ UNCHANGED <<tzOffset, call, ret>>

FetchUserResume ==
  /\ screen.name = "SettingsScreen"
  /\ screen.fetchUser.pc # "done"
  /\ Settled(screen.fetchUser.awaited)
  /\ screen' = fetchUserResume(screen)
  /\ UNCHANGED <<tzOffset, call, ret>>

TapLogout ==
  /\ SettingsTouchable(screen)
  /\ screen' = handleLogout(screen)
  /\ UNCHANGED <<tzOffset, call, ret>>

TapCancel ==
  /\ SettingsEvent(screen)
  /\ screen.alert # Null
  /\ screen' = [screen EXCEPT !.alert = Null]
  /\ UNCHANGED <<tzOffset, call, ret>>

ConfirmLogout ==
  /\ SettingsEvent(screen)
  /\ screen.alert # Null
  /\ Len(screen.logout) < MaxRequests
  /\ screen' = logoutPress(screen)
  /\ UNCHANGED <<tzOffset, call, ret>>

\* SecureStore deletes the key and fulfils the promise, or fails and
\* rejects it.
DeleteItemSettles ==
  /\ SettingsEvent(screen)
  /\ \E i \in 1..Len(screen.logout) :
       /\ screen.logout[i].deleteItemAsync = Null
       /\ \/ screen' = [screen EXCEPT !.secureStore = deleteItem(@, "userToken"),
                                      !.logout[i].deleteItemAsync = Returned(Null)]
          \/ screen' = [screen EXCEPT !.logout[i].deleteItemAsync = Thrown("Error")]
  /\ UNCHANGED <<tzOffset, call, ret>>

LogoutResume ==
  /\ screen.name = "SettingsScreen"
  /\ \E i \in 1..Len(screen.logout) :
       /\ Settled(screen.logout[i].deleteItemAsync)
       /\ screen' = logoutResume(screen, i)
  /\ UNCHANGED <<tzOffset, call, ret>>

NextSettingsScreen ==
  \/ FetchUserSettles \/ FetchUserResume
  \/ TapLogout \/ TapCancel \/ ConfirmLogout \/ DeleteItemSettles \/ LogoutResume

\* No code of the floating menu is waiting to run.
FABEvent(s) ==
  /\ s.name = "ExpandableFAB"
  /\ \A i \in 1..Len(s.addItems) : ~Settled(s.addItems[i].awaited)
FABTouchable(s) == FABEvent(s) /\ s.alert = Null /\ s.toggles < MaxToggles

\* React renders the component again after setOpen.
Render ==
  /\ FABEvent(screen)
  /\ screen.rendered.open # screen.open
  /\ screen' = render(screen)
  /\ UNCHANGED <<tzOffset, call, ret>>

TapFAB ==
  /\ FABTouchable(screen)
  /\ screen' = toggleMenu(screen)
  /\ UNCHANGED <<tzOffset, call, ret>>

\* Create outfit, Create lookbook, Premium Features: shown by {open && ...}.
TapNavigate ==
  /\ FABTouchable(screen)
  /\ screen.rendered.open
  /\ \E route \in Routes : screen' = navigateAndClose(screen, route)
  /\ UNCHANGED <<tzOffset, call, ret>>

TapAddItems ==
  /\ FABTouchable(screen)
  /\ screen.rendered.open
  /\ Len(screen.addItems) < MaxRequests
  /\ screen' = handleAddItems(screen)
  /\ UNCHANGED <<tzOffset, call, ret>>

TimerFires ==
  /\ FABEvent(screen)
  /\ screen.timers # <<>>
  /\ screen' = timerFires(screen)
  /\ UNCHANGED <<tzOffset, call, ret>>

\* The permission request or the camera settles.
AddItemsSettles ==
  /\ FABEvent(screen)
  /\ \E i \in 1..Len(screen.addItems) :
       \E r \in {Thrown("Error")} \cup
                (IF screen.addItems[i].pc = "await permission"
                 THEN {Returned([status |-> "granted"]), Returned([status |-> "denied"])}
                 ELSE {Returned([canceled |-> TRUE]), Returned([canceled |-> FALSE])}) :
         screen' = [screen EXCEPT !.addItems[i].awaited = r]
  /\ UNCHANGED <<tzOffset, call, ret>>

AddItemsResume ==
  /\ screen.name = "ExpandableFAB"
  /\ \E i \in 1..Len(screen.addItems) :
       /\ Settled(screen.addItems[i].awaited)
       /\ screen' = handleAddItemsResume(screen, i)
  /\ UNCHANGED <<tzOffset, call, ret>>

DismissPermissionAlert ==
  /\ FABEvent(screen)
  /\ screen.alert # Null
  /\ screen' = [screen EXCEPT !.alert = Null]
  /\ UNCHANGED <<tzOffset, call, ret>>

NextExpandableFAB ==
  \/ Render \/ TapFAB \/ TapNavigate \/ TapAddItems \/ TimerFires
  \/ AddItemsSettles \/ AddItemsResume \/ DismissPermissionAlert

InitApp ==
  /\ tzOffset \in TZOffsets
  /\ call = Idle
  /\ ret = Null
  /\ screen \in {CalendarScreen(ClockNow), AnalyticsScreen, SettingsScreen, ExpandableFAB}

NextApp ==
  NextCalendarScreen \/ NextAnalyticsScreen \/ NextSettingsScreen \/ NextExpandableFAB

SpecApp == InitApp /\ [][NextApp]_vars

\* The code after a settled await runs, and a body that is being read is
\* read to its end or fails: response.json() does not stay pending.
LoadProgress ==
  FetchOutfitsBody \/ FetchOutfitsResume \/ FetchAllBody \/ FetchAllResume

SpecAppFair == SpecApp /\ WF_screen(LoadProgress)

(***************************************************************************)
(* Calendar facts the claims are stated against.                           *)
(***************************************************************************)

\* The calendar day, as a day number, on which the device's wall clock
\* stands at instant t.
CalendarDay(t, tz) == Day(LocalTime(t, tz))

IsLeapYear(y) == (y % 4 = 0 /\ y % 100 # 0) \/ y % 400 = 0

\* Days of a month, month zero-based.
DaysInMonth(y, m) ==
  IF m = 1 THEN (IF IsLeapYear(y) THEN 29 ELSE 28)
  ELSE IF m \in {3, 5, 8, 10} THEN 30 ELSE 31

\* Weekday (0 = Sunday) of a calendar date, month zero-based, by Sakamoto's
\* table.
WeekdayOf(y, m, d) ==
  LET t  == <<0, 3, 2, 5, 0, 3, 5, 1, 4, 6, 2, 4>>
      yy == IF m < 2 THEN y - 1 ELSE y
  IN  (yy + (yy \div 4) - (yy \div 100) + (yy \div 400) + t[m + 1] + d) % 7

\* "YYYY-MM-DD" of a calendar day.
KeyOfCalendarDay(n) ==
  LET c == CivilFromDay(n)
  IN  <<c.year, c.month + 1, c.date>>

(***************************************************************************)
(* C1.  For all dates d1, d2 and every time-zone offset of the device,     *)
(* toDateKey(d1) = toDateKey(d2) exactly when d1 and d2 fall on the same   *)
(* calendar day.  Fails: the key is the UTC day of the instant.            *)
(***************************************************************************)
C1_SameKeyIffSameCalendarDay ==
  call.op = "isSameDay" =>
    (ret <=> CalendarDay(call.a, tzOffset) = CalendarDay(call.b, tzOffset))

(***************************************************************************)
(* C7.  The grid getMonthGrid returns has a length that is a multiple of   *)
(* 7, for every year and month.                                            *)
(***************************************************************************)
C7_GridLengthMultipleOf7 ==
  call.op = "getMonthGrid" => Len(ret) % 7 = 0

\* February 2024: 4 leading blanks, 29 days, 2 trailing blanks.
C7_Witness ==
  /\ call.op = "getMonthGrid"
  /\ call.year = 2024 /\ call.month = 1
  /\ Len(ret) = 35

(***************************************************************************)
(* C8.  getMonthGrid(year, month) is w blanks, w the weekday of the 1st    *)
(* (0 = Sunday), then one cell per day of the month in ascending order,    *)
(* then fewer than 7 blanks.                                               *)
(***************************************************************************)
C8_GridLayout ==
  call.op = "getMonthGrid" =>
    LET w == WeekdayOf(call.year, call.month, 1)
        n == DaysInMonth(call.year, call.month)
    IN  /\ Len(ret) >= w + n
        /\ Len(ret) - (w + n) < 7
        /\ \A i \in 1..Len(ret) :
             IF i > w /\ i <= w + n
             THEN /\ ret[i] # Null
                  /\ CalendarDay(ret[i].date, tzOffset)
                       = MakeDay(call.year, call.month, 1) + (i - w - 1)
                  /\ getDate(ret[i].date, tzOffset) = i - w
                  /\ getMonth(ret[i].date, tzOffset) = call.month
                  /\ getFullYear(ret[i].date, tzOffset) = call.year
             ELSE ret[i] = Null

\* February 2024 has 29 day cells, the first in column 4 (Thursday).
C8_Witness ==
  /\ call.op = "getMonthGrid"
  /\ call.year = 2024 /\ call.month = 1
  /\ Cardinality({i \in 1..Len(ret) : ret[i] # Null}) = 29
  /\ ret[4] = Null /\ ret[5] # Null

(***************************************************************************)
(* C9.  getWeekDays(d) is 7 consecutive calendar days, the first the most  *)
(* recent Sunday on or before d, and d's day is among them.                *)
(***************************************************************************)
C9_WeekOf ==
  call.op = "getWeekDays" =>
    LET today == CalendarDay(call.date, tzOffset)
        first == CalendarDay(ret[1], tzOffset)
    IN  /\ Len(ret) = 7
        /\ WeekDay(first) = 0
        /\ first <= today /\ today - first < 7
        /\ \A i \in 1..7 : CalendarDay(ret[i], tzOffset) = first + (i - 1)
        /\ \E i \in 1..7 : ret[i] = call.date

\* A week across the turn of the year: Tuesday 2024-01-02 lies in the week
\* of Sunday 2023-12-31.
C9_Witness ==
  /\ call.op = "getWeekDays"
  /\ CalendarDay(call.date, tzOffset) = MakeDay(2024, 0, 2)
  /\ CalendarDay(ret[1], tzOffset) = MakeDay(2023, 11, 31)
  /\ CalendarDay(ret[7], tzOffset) = MakeDay(2024, 0, 6)

(***************************************************************************)
(* Facts about outfit arrays the claims are stated against.                *)
(***************************************************************************)

\* The date key an outfit's date string spells out.
DateKeyOf(o) == <<o.date.Y, o.date.M, o.date.D>>

\* How often id occurs in a list of garment ids.
Occurrences(ids, id) == Cardinality({i \in 1..Len(ids) : ids[i] = id})

\* Two outfits wear the same garments, in whatever order.
SameGarments(o, p) ==
  /\ Len(o.garmentIds) = Len(p.garmentIds)
  /\ \A i \in 1..Len(o.garmentIds) :
       Occurrences(o.garmentIds, o.garmentIds[i]) = Occurrences(p.garmentIds, o.garmentIds[i])

\* The size of the group of seq[i] within seq.
GroupSize(seq, i) == Cardinality({j \in 1..Len(seq) : SameGarments(seq[i], seq[j])})

\* The rearrangements of a list.
Rearrangements(ids) ==
  {[i \in 1..Len(ids) |-> ids[f[i]]] :
     f \in {g \in [1..Len(ids) -> 1..Len(ids)] : \A a, b \in 1..Len(ids) : g[a] = g[b] => a = b}}

\* The index without the entry of key k.
RemoveKey(map, k) == [x \in (DOMAIN map) \ {k} |-> map[x]]

\* Length of the run of consecutive calendar days ending at day n whose
\* keys are all in keys.
RECURSIVE RunLength(_, _)
RunLength(keys, n) ==
  IF KeyOfCalendarDay(n) \in keys THEN 1 + RunLength(keys, n - 1) ELSE 0

\* The scenario of three outfits in March 2025.
MarchScenario ==
  <<OutfitEntry(1, IsoDate(2025, 3, 1, 0), <<IdA, IdB>>),
    OutfitEntry(2, IsoDate(2025, 3, 5, 0), <<IdB, IdA>>),
    OutfitEntry(3, IsoDate(2025, 3, 10, 0), <<IdC>>)>>

(***************************************************************************)
(* C2.  getStreak is the length of the longest run of consecutive calendar *)
(* days that ends at and includes today and whose date keys are all in the *)
(* index; 0 when today has no outfit.  Fails off UTC: the walk looks up    *)
(* the UTC day of the clock, not the device's calendar day (see C1).       *)
(***************************************************************************)
C2_StreakIsRunEndingToday ==
  call.op = "getStreak" =>
    ret = RunLength(DOMAIN outfitMap(call.outfits), CalendarDay(call.now, tzOffset))

(***************************************************************************)
(* C3.  getMostWornThisMonth returns the group with the highest count      *)
(* among the outfits dated in the target month and year, with that count,  *)
(* and null when there is none; the March 2025 scenario gives the group    *)
(* "a,b" with count 2.  Fails west of UTC: an outfit dated 2025-03-01 is   *)
(* filtered by its local month, which is February.                         *)
(***************************************************************************)
C3_MostWornOfTargetMonth ==
  call.op = "getMostWornThisMonth" =>
    LET year    == getFullYear(call.currentMonth, tzOffset)
        month   == getMonth(call.currentMonth, tzOffset)
        inMonth == SelectSeq(call.outfits,
                             LAMBDA o : o.date.Y = year /\ o.date.M = month + 1)
    IN  /\ Len(inMonth) = 0 => ret = Null
        /\ Len(inMonth) > 0 =>
             /\ ret # Null
             /\ \E i \in 1..Len(inMonth) :
                  /\ ret.previewImage = inMonth[i].previewImage
                  /\ ret.count = GroupSize(inMonth, i)
             /\ \A j \in 1..Len(inMonth) : GroupSize(inMonth, j) <= ret.count
        /\ call.outfits = MarchScenario =>
             ret = [previewImage |-> 1, count |-> 2]

(***************************************************************************)
(* C4.  The result of getMostWornThisMonth is unchanged when the           *)
(* garmentIds of any single outfit are permuted.                           *)
(***************************************************************************)
C4_PermutationInvariant ==
  call.op = "getMostWornThisMonth" =>
    \A i \in 1..Len(call.outfits) :
      \A ids \in Rearrangements(call.outfits[i].garmentIds) \ {call.outfits[i].garmentIds} :
        getMostWornThisMonth([call.outfits EXCEPT ![i].garmentIds = ids],
                             call.currentMonth, tzOffset) = ret

\* ["a","b"] and ["b","a"] counted as one group of 2 that beats ["c"].
C4_Witness ==
  /\ call.op = "getMostWornThisMonth"
  /\ Len(call.outfits) = 3
  /\ call.outfits[1].garmentIds = <<IdC>>
  /\ call.outfits[2].garmentIds = <<IdA, IdB>>
  /\ call.outfits[3].garmentIds = <<IdB, IdA>>
  /\ ret = [previewImage |-> 2, count |-> 2]

(***************************************************************************)
(* C5.  When several groups share the maximum count, the group reported    *)
(* is the one whose first outfit comes earliest in the month-filtered      *)
(* input, for every pair of signatures.  Fails when a signature is an      *)
(* array index ("1"): Object.values lists such keys first.                 *)
(***************************************************************************)
C5_TieBreakFirstInInput ==
  (call.op = "getMostWornThisMonth" /\ ret # Null) =>
    LET seq   == thisMonthOutfits(call.outfits, call.currentMonth, tzOffset)
        isMax(i) == \A j \in 1..Len(seq) : GroupSize(seq, j) <= GroupSize(seq, i)
        first == CHOOSE i \in 1..Len(seq) :
                   isMax(i) /\ \A j \in 1..(i - 1) : ~isMax(j)
    IN  ret.previewImage = seq[first].previewImage

(***************************************************************************)
(* C6.  outfitMap holds exactly one outfit per date key of the input, the  *)
(* one that comes last in input order; outfits are never merged.           *)
(***************************************************************************)
C6_LastOutfitWins ==
  call.op = "outfitMap" =>
    /\ DOMAIN ret = {DateKeyOf(call.outfits[i]) : i \in 1..Len(call.outfits)}
    /\ \A i \in 1..Len(call.outfits) :
         (\A j \in (i + 1)..Len(call.outfits) :
            DateKeyOf(call.outfits[j]) # DateKeyOf(call.outfits[i]))
         => ret[DateKeyOf(call.outfits[i])] = call.outfits[i]

\* Two outfits on 2025-03-01, at 00:00Z and at 12:00Z: the later entry of
\* the array is the one stored.
C6_Witness ==
  /\ call.op = "outfitMap"
  /\ Len(call.outfits) = 2
  /\ call.outfits[1].date = IsoDate(2025, 3, 1, 12)
  /\ call.outfits[2].date = IsoDate(2025, 3, 1, 0)
  /\ DOMAIN ret = {<<2025, 3, 1>>}
  /\ ret[<<2025, 3, 1>>]._id = 2

(***************************************************************************)
(* C10.  Removing an entry from the index never raises the streak: for     *)
(* every key k, getStreak over the index without k is at most getStreak    *)
(* over the index, for the same clock; without the entry looked up for     *)
(* today it is 0.                                                          *)
(***************************************************************************)
C10_StreakMonotoneUnderRemoval ==
  call.op = "getStreak" =>
    LET map == outfitMap(call.outfits)
    IN  \A k \in DOMAIN map :
          LET less == getStreak(RemoveKey(map, k), call.now, tzOffset)
          IN  /\ less <= ret
              /\ k = toDateKey(call.now) => less = 0

\* A streak of 3 that drops to 1 without its middle day and to 0 without
\* today.
C10_Witness ==
  /\ call.op = "getStreak"
  /\ ret = 3
  /\ LET map == outfitMap(call.outfits)
     IN  /\ \E k \in DOMAIN map : getStreak(RemoveKey(map, k), call.now, tzOffset) = 1
         /\ \E k \in DOMAIN map : getStreak(RemoveKey(map, k), call.now, tzOffset) = 0

(***************************************************************************)
(* C11: the backward walk of getStreak always terminates: for every outfit *)
(* index, also one with an entry on every day of the data's range, the     *)
(* loop stops after a bounded number of steps and returns a finite count.  *)
(* The walk never counts more days than the index has entries, what it     *)
(* returns is that count (the value of the recursive getStreak), and every *)
(* walk that has begun reaches its return.                                 *)
(***************************************************************************)
StreakWalking == call.op = "getStreak" /\ call.pc = "while"

StreakReturned == call.op = "getStreak" /\ call.pc = "return"

StreakBounded ==
  call.op = "getStreak" =>
    /\ call.streak \in 0..Cardinality(DOMAIN outfitMap(call.outfits))
    /\ StreakReturned =>
         call.streak = getStreak(outfitMap(call.outfits), call.now, tzOffset)

C11_StreakWalkTerminates == []StreakBounded /\ (StreakWalking ~> StreakReturned)

\* The walk has returned from an index with an entry on every day of its
\* range, having counted them all.
C11_Witness ==
  /\ StreakReturned
  /\ Len(call.outfits) = StreakSpanDays
  /\ call.streak = StreakSpanDays

(***************************************************************************)
(* The analytics claims read the rendered rows and slices of a snapshot.   *)
(***************************************************************************)

\* n / d rounded to the nearest integer, halves upward.
RoundHalfUp(n, d) == (2 * n + d) \div (2 * d)

\* The counts of a sequence of records.
CountsOf(records) == [i \in DOMAIN records |-> records[i].count]

\* The sum of a sequence of numbers.
RECURSIVE Sum(_, _)
Sum(f, n) == IF n = 0 THEN 0 ELSE f[n] + Sum(f, n - 1)

RowsOfData == call.op = "categoryRows" /\ Len(call.categories) > 0

\* The percentage a pie slice's share stands for.
PercentOfShare(share) == MathRound(MulDouble(share, 100))

WithinTolerance(percents) ==
  /\ \A i \in DOMAIN percents : percents[i] \in 0..100
  /\ Sum(percents, Len(percents)) \in (100 - Len(percents))..(100 + Len(percents))

(***************************************************************************)
(* C12: for each category group the displayed percent equals               *)
(* round(100 * count / totalGarments), totalGarments being the user's      *)
(* total garment count, and it is 0, with no division, when that total     *)
(* is 0.                                                                   *)
(***************************************************************************)
C12_PercentIsRoundedShare ==
  RowsOfData =>
    \A i \in 1..Len(call.categories) :
      ret[i].width = IF call.overview.totalItems = 0 THEN 0
                     ELSE RoundHalfUp(100 * call.categories[i].count,
                                      call.overview.totalItems)

C14_NoRowsWithoutGarments ==
  (call.op = "categoryRows" /\ call.categories = <<>>) => ret = <<>>

(***************************************************************************)
(* C14: with zero garments (no category record) no row is computed from    *)
(* data; the screen produces the six placeholder rows Tops, Bottoms,       *)
(* Dresses, Shoes, Bags, Accessories, in this order, each with count 0     *)
(* and a bar of 0 percent.                                                 *)
(***************************************************************************)
C14_PlaceholderRowsWithoutGarments ==
  (call.op = "categoryRows" /\ call.categories = <<>>) =>
    /\ Len(ret) = Len(fallbackNames)
    /\ \A i \in 1..Len(ret) :
         ret[i].name = fallbackNames[i] /\ ret[i].count = 0 /\ ret[i].width = 0

C14_Witness ==
  /\ call.op = "categoryRows" /\ call.categories = <<>>
  /\ Len(ret) = 6 /\ ret[1].name = Tops /\ ret[6].name = Accessories

(***************************************************************************)
(* C15 as stated: the category rows are ordered by descending count, ties  *)
(* broken by ascending category name, for every input order.               *)
(***************************************************************************)
C15_RowsByCountThenName ==
  RowsOfData =>
    \A i, j \in 1..Len(ret) :
      i < j => \/ ret[i].count > ret[j].count
               \/ ret[i].count = ret[j].count /\ StrLess(ret[i].name, ret[j].name)

(***************************************************************************)
(* C15: the category rows are presented in the order of the category       *)
(* records they are made from: row i shows the name and the count of       *)
(* record i, for every input order.                                        *)
(***************************************************************************)
C15_RowsInInputOrder ==
  RowsOfData =>
    /\ Len(ret) = Len(call.categories)
    /\ \A i \in 1..Len(ret) :
         ret[i].name = call.categories[i].name /\ ret[i].count = call.categories[i].count

\* Records in ascending count come out in ascending count.
C15_Witness ==
  /\ RowsOfData
  /\ Len(ret) = 2
  /\ call.categories[1].count < call.categories[2].count
  /\ ret[1].count < ret[2].count

(***************************************************************************)
(* C16: the colour chart groups by colour: each colour's share is its      *)
(* count divided by the total of all colour counts, there is one slice     *)
(* per colour record, and a total of 0 gives no slice at all instead of a  *)
(* division by zero.                                                       *)
(***************************************************************************)
C16_ColourShares ==
  call.op = "colourChart" =>
    LET colours == call.colours
        total   == Sum(CountsOf(colours), Len(colours))
    IN  IF total = 0 THEN ret.pieSlices = <<>>
        ELSE /\ Len(ret.pieSlices) = Len(colours)
             /\ \A i \in 1..Len(colours) :
                  /\ ret.pieSlices[i].share = DivDouble(colours[i].count, total)
                  /\ colours[i].colour # "" => ret.pieSlices[i].colour = colours[i].colour

\* One garment of one colour and three of another: a quarter and three
\* quarters of the circle.
C16_Witness ==
  /\ call.op = "colourChart"
  /\ Len(call.colours) = 2
  /\ call.colours[1].count = 1 /\ call.colours[2].count = 3
  /\ Len(ret.pieSlices) = 2
  /\ ret.pieSlices[1].share = DivDouble(1, 4)
  /\ ret.pieSlices[2].largeArc = 1

(***************************************************************************)
(* C17: every aggregation tolerates empty input: with an empty outfit      *)
(* collection the outfit index is empty, the streak is 0 and the most worn *)
(* outfit of the month is null, and nothing throws.                        *)
(***************************************************************************)
C17_EmptyInputIsNeutral ==
  (call # Idle /\ call.outfits = <<>>) =>
    /\ call.op = "outfitMap" => ret = Returned(<<>>)
    /\ call.op = "getMostWornThisMonth" => ret = Null
    /\ call.op = "getStreak" => ret = 0

\* The most worn outfit of no outfits at all has been asked for.
C17_Witness ==
  /\ call.op = "getMostWornThisMonth"
  /\ call.outfits = <<>>
  /\ ret = Null

(***************************************************************************)
(* C18: an outfit record whose date does not parse surfaces, in index      *)
(* construction and in the month filter of the most worn outfit, as a      *)
(* typed InvalidRecord error that names the record's identifier; it is     *)
(* never skipped silently, and no untyped error is thrown.                 *)
(***************************************************************************)
InvalidRecord(id) == [thrown |-> "InvalidRecord", id |-> id]

C18_MalformedDateIsInvalidRecord ==
  (/\ call.op \in {"outfitMap", "getMostWornThisMonth"}
   /\ \E i \in 1..Len(call.outfits) : IsInvalidDate(call.outfits[i].date)) =>
    \E i \in 1..Len(call.outfits) :
      /\ IsInvalidDate(call.outfits[i].date)
      /\ ret = InvalidRecord(call.outfits[i]._id)

(***************************************************************************)
(* C20: the aggregations are deterministic functions of their stated       *)
(* inputs: getStreak gives the same count for the same outfits and the     *)
(* same reference day, getMostWornThisMonth the same result for the same   *)
(* outfits, year and month, whatever the device's time zone and the        *)
(* moment of the day at which they are invoked.                            *)
(***************************************************************************)
C20_SameInputsSameResult ==
  /\ call.op = "getMostWornThisMonth" =>
       \A tz \in TZOffsets :
         getMostWornThisMonth(call.outfits, NewDate(2025, 2, 1, tz), tz) = ret
  /\ call.op = "getStreak" =>
       \A tz \in TZOffsets, now \in StreakClock :
         CalendarDay(now, tz) = CalendarDay(call.now, tzOffset) =>
           getStreak(outfitMap(call.outfits), now, tz) = ret

(***************************************************************************)
(* C19: no aggregation mutates its inputs: after outfitMap, getWeekDays,   *)
(* getMostWornThisMonth and the colour ranking have run, the outfits       *)
(* array, the order of every outfit's garmentIds, the order of the colours *)
(* array and the date passed in are what they were before.                 *)
(***************************************************************************)
C19_InputsUnchanged ==
  call # Idle =>
    /\ \A r \in DOMAIN call.heap : ret.heap[r] = call.heap[r]
    /\ call.op = "getWeekDays" =>
         ret.value = getWeekDays(call.heap[Ref("date", 0)], tzOffset)
    /\ call.op = "topColours" =>
         ret.value = topColours(call.heap[Ref("colours", 0)])

\* An outfit of March whose garmentIds are out of order: its signature was
\* taken from a sorted copy, the outfit's own array is as it was.
C19_Witness ==
  /\ call.op = "getMostWornThisMonth"
  /\ tzOffset = 0
  /\ Len(call.heap[Ref("outfits", 0)]) = 1
  /\ call.heap[Ref("garmentIds", 1)] = <<IdB, IdA>>
  /\ ret.heap[Ref("garmentIds", 1)] = <<IdB, IdA>>
  /\ ret.heap[Ref("copy", 1)] = <<IdA, IdB>>
  /\ ret.value # Null

(***************************************************************************)
(* Facts about the mounted component the claims are stated against.        *)
(***************************************************************************)

OnCalendar == screen.name = "CalendarScreen"

\* The ids the server's outfits have.
OutfitIds == {data[i]._id : i \in 1..3, data \in {d \in FetchedOutfits : Len(d) = 3}}

\* No entry of the list, and none of the index built from it, has the id.
InList(outfits, id) == \E i \in 1..Len(outfits) : outfits[i]._id = id
InIndex(outfits, id) ==
  \E key \in DOMAIN outfitMap(outfits) : outfitMap(outfits)[key]._id = id
Unreferenced(s, id) == ~InList(s.outfits, id) /\ ~InIndex(s.outfits, id)

\* This step is the end of a deleteOutfit(id) whose request fulfilled /
\* rejected: the call leaves the calls in flight.
DeleteEnds(id, how(_)) ==
  /\ OnCalendar
  /\ Len(screen'.deleteOutfit) < Len(screen.deleteOutfit)
  /\ \E i \in 1..Len(screen.deleteOutfit) :
       /\ screen.deleteOutfit[i].outfitId = id
       /\ how(screen.deleteOutfit[i].response)

(***************************************************************************)
(* C21: after the user has deleted an outfit no calendar cell refers to    *)
(* it: when deleteOutfit(id) ends after its request was answered, the      *)
(* outfit list and the date-key index built from it have no entry whose    *)
(* _id is id, and an id that the loaded list does not have never comes     *)
(* back.  (A request that rejects deletes nothing: that is C25's case.)    *)
(***************************************************************************)
C21_DeletedOutfitUnreferenced ==
  [][\A id \in OutfitIds :
       /\ DeleteEnds(id, Fulfilled) => Unreferenced(screen', id)
       /\ (OnCalendar /\ screen.fetchOutfits.pc = "done" /\ Unreferenced(screen, id))
            => Unreferenced(screen', id)]_vars

\* Outfit 3 was the one shown on its day; it has been deleted, and outfit 1
\* of the same day is what the index now holds.
C21_Witness ==
  /\ OnCalendar
  /\ ~screen.loading
  /\ screen.deleteOutfit = <<>>
  /\ Fulfilled(screen.fetchOutfits.body)
  /\ Len(screen.fetchOutfits.body.returned) = 3
  /\ Len(screen.outfits) = 2
  /\ ~InList(screen.outfits, 3)
  /\ InIndex(screen.outfits, 1)
  /\ ~screen.menuVisible

OnAnalytics == screen.name = "AnalyticsScreen"

\* The collections fetchAll has stored so far.
StoredCollections(s) == {Collections[k] : k \in 1..s.fetchAll.stored}
AllCollections == {Collections[k] : k \in 1..Len(Collections)}

(***************************************************************************)
(* C22: the analytics screen computes and shows its derived values (the    *)
(* spinner is gone) only when all six fetched collections have been stored *)
(* or none has; never from a strict subset of them.  Fails: the bodies are *)
(* parsed and stored one after the other, and a body that fails to parse   *)
(* ends the try block with the earlier collections already stored.         *)
(***************************************************************************)
C22_AllOrNoneStored ==
  (OnAnalytics /\ renderAnalyticsScreen(screen) # Spinner) =>
    StoredCollections(screen) \in {{}, AllCollections}

(***************************************************************************)
(* C23: the month-grid cell of local calendar day (year, month, d) shows   *)
(* the outfit whose stored date is that day: in every time zone the key    *)
(* the cell is looked up with is the key under which an outfit dated       *)
(* year-month-d, at any hour, was indexed.  Fails east of UTC: the cell is *)
(* local midnight, whose UTC day is the day before (see C1).               *)
(***************************************************************************)
C23_CellKeyIsIndexKey ==
  call.op = "getMonthGrid" =>
    \A i \in 1..Len(ret) :
      ret[i] # Null =>
        \A h \in 0..(HoursPerDay - 1) :
          LET d      == getDate(ret[i].date, tzOffset)
              outfit == OutfitEntry(1, IsoDate(call.year, call.month + 1, d, h), <<IdA>>)
          IN  toDateKey(ret[i].date) \in DOMAIN outfitMap(<<outfit>>)

\* The day cells of the grid of the month shown, as date keys.
GridKeys(year, month, tz) ==
  LET grid == getMonthGrid(year, month, tz)
  IN  {toDateKey(grid[i].date) : i \in {j \in 1..Len(grid) : grid[j] # Null}}

(***************************************************************************)
(* C24: the outfits getMostWornThisMonth counts for (year, month) are      *)
(* exactly the outfits whose date key is the key of a day cell of          *)
(* getMonthGrid(year, month): none is counted for one month and indexed    *)
(* under a key of another.  Fails off UTC: the month filter reads the      *)
(* local month of the date, the key is its UTC day (see C1, C3).           *)
(***************************************************************************)
C24_CountedIffInGrid ==
  call.op = "getMostWornThisMonth" =>
    LET year    == getFullYear(call.currentMonth, tzOffset)
        month   == getMonth(call.currentMonth, tzOffset)
        counted == thisMonthOutfits(call.outfits, call.currentMonth, tzOffset)
    IN  \A i \in 1..Len(call.outfits) :
          (\E j \in 1..Len(counted) : counted[j] = call.outfits[i])
            <=> toDateKey(ParseDate(call.outfits[i].date)) \in GridKeys(year, month, tzOffset)

\* This step takes the outfit of that id out of the loaded list.
RemovedLocally(id) ==
  /\ OnCalendar
  /\ InList(screen.outfits, id)
  /\ ~InList(screen'.outfits, id)

\* The server deleted the outfit: a DELETE request for it was answered with
\* a success status.
DeletedOnServer(id) ==
  \E i \in 1..Len(screen.deleteOutfit) :
    /\ screen.deleteOutfit[i].outfitId = id
    /\ Fulfilled(screen.deleteOutfit[i].response)
    /\ screen.deleteOutfit[i].response.returned.ok

\* When the request of deleteOutfit(id) rejects, the list is left as it is,
\* the menu as it is, and the error alert is raised.
RejectedDeleteKeepsOutfit ==
  \A id \in OutfitIds :
    DeleteEnds(id, Rejected) =>
      /\ screen'.outfits = screen.outfits
      /\ screen'.menuVisible = screen.menuVisible
      /\ screen'.alert = AlertOf("Error")

(***************************************************************************)
(* C25: when the DELETE request rejects, the local outfit list is          *)
(* unchanged, the delete menu stays open and an error alert is raised; an  *)
(* outfit leaves the local list only when the server deleted it.  Fails:   *)
(* fetch fulfils whatever the status of the answer, and deleteOutfit never *)
(* looks at the response.                                                  *)
(***************************************************************************)
C25_RemovedOnlyWhenDeleted ==
  [][/\ RejectedDeleteKeepsOutfit
     /\ \A id \in OutfitIds : RemovedLocally(id) => DeletedOnServer(id)]_vars

\* The requests of the initial load have settled / have been rejected.
LoadSettled ==
  \/ OnCalendar /\ Settled(screen.fetchOutfits.response)
  \/ OnAnalytics /\ (Rejected(screen.fetchAll.token)
                      \/ Settled(PromiseAll(screen.fetchAll.responses)))
LoadRejected ==
  \/ OnCalendar /\ Rejected(screen.fetchOutfits.response)
  \/ OnAnalytics /\ (Rejected(screen.fetchAll.token)
                      \/ Rejected(PromiseAll(screen.fetchAll.responses)))

\* The collections are what useState gave them.
CollectionsEmpty ==
  IF OnCalendar THEN screen.outfits = <<>>
  ELSE /\ screen.overview = Null
       /\ \A k \in 2..Len(Collections) : screen[Collections[k]] = <<>>

Loads == OnCalendar \/ OnAnalytics
Rendered == IF OnCalendar THEN renderCalendarScreen(screen) ELSE renderAnalyticsScreen(screen)

(***************************************************************************)
(* C26: on the calendar and on the analytics screen, once the requests of  *)
(* the initial load have settled, fulfilled or rejected, the loading flag  *)
(* eventually becomes false; when they were rejected the collections are   *)
(* still what they were, empty; and while loading is true the spinner is   *)
(* all that is rendered.                                                   *)
(***************************************************************************)
C26_LoadingEnds ==
  /\ [](Loads /\ screen.loading => Rendered = Spinner)
  /\ [](Loads /\ LoadRejected => CollectionsEmpty)
  /\ ((Loads /\ LoadSettled) ~> (Loads /\ ~screen.loading))

\* The six requests were sent and one of them was rejected: the spinner is
\* gone and nothing has been stored.
C26_Witness ==
  /\ OnAnalytics
  /\ Fulfilled(screen.fetchAll.token)
  /\ Rejected(PromiseAll(screen.fetchAll.responses))
  /\ ~screen.loading
  /\ CollectionsEmpty

\* Two dates of the same month and year, of the same calendar day.
SameMonth(a, b, tz) == getFullYear(a, tz) = getFullYear(b, tz) /\ getMonth(a, tz) = getMonth(b, tz)
SameCalendarDay(a, b, tz) == CalendarDay(a, tz) = CalendarDay(b, tz)

\* The days of the month the month view shows.
ShownDays(s, tz) ==
  LET grid == getMonthGrid(getFullYear(s.currentMonth, tz), getMonth(s.currentMonth, tz), tz)
  IN  {grid[i].date : i \in {j \in 1..Len(grid) : grid[j] # Null}}

(***************************************************************************)
(* C27: in the month view selectedDate changes only by the tap on a day    *)
(* cell, which sets it to that cell's day and switches to the day view;    *)
(* the day view is left for the month view only by the tap on the month    *)
(* label, and on every such entry the month view shows the month and year  *)
(* of selectedDate, pinned to day 1.                                       *)
(***************************************************************************)
C27_ViewNavigation ==
  [][OnCalendar =>
       /\ (screen.viewMode = "month" /\ screen'.selectedDate # screen.selectedDate) =>
            /\ screen'.selectedDate \in ShownDays(screen, tzOffset)
            /\ screen'.viewMode = "day"
       /\ (screen.viewMode = "day" /\ screen'.viewMode = "month") =>
            /\ screen'.selectedDate = screen.selectedDate
            /\ SameMonth(screen'.currentMonth, screen'.selectedDate, tzOffset)
            /\ getDate(screen'.currentMonth, tzOffset) = 1]_vars

\* Mounted on 31 December 2024; the user has gone a week on, into 2025,
\* opened the month view, which shows January 2025, and picked the 3rd.
C27_Witness ==
  /\ OnCalendar
  /\ tzOffset = 0
  /\ screen.viewMode = "day"
  /\ screen.currentMonth = NewDate(2025, 0, 1, tzOffset)
  /\ screen.selectedDate = NewDate(2025, 0, 3, tzOffset)

(***************************************************************************)
(* C28: nextMonth then prevMonth, and prevMonth then nextMonth, bring the  *)
(* month view back to the same month and year, across December/January    *)
(* too; every month reached by navigation is pinned to day 1; a week on    *)
(* and then a week back brings selectedDate to the same calendar day, of   *)
(* the same weekday.                                                       *)
(***************************************************************************)
C28_NavigationInverse ==
  /\ [](OnCalendar =>
          /\ SameMonth(prevMonth(nextMonth(screen, tzOffset), tzOffset).currentMonth,
                       screen.currentMonth, tzOffset)
          /\ SameMonth(nextMonth(prevMonth(screen, tzOffset), tzOffset).currentMonth,
                       screen.currentMonth, tzOffset)
          /\ LET back == prevWeek(nextWeek(screen, tzOffset), tzOffset).selectedDate
             IN  /\ SameCalendarDay(back, screen.selectedDate, tzOffset)
                 /\ getDay(back, tzOffset) = getDay(screen.selectedDate, tzOffset))
  /\ [][(OnCalendar /\ screen'.currentMonth # screen.currentMonth) =>
          /\ getDate(screen'.currentMonth, tzOffset) = 1
          /\ TimeWithinDay(LocalTime(screen'.currentMonth, tzOffset)) = 0]_vars

\* Mounted in December 2024 with selectedDate untouched, the month view has
\* been taken to January 2025 and back to December, now pinned to day 1.
C28_Witness ==
  /\ OnCalendar
  /\ tzOffset = 0 - TzWest
  /\ screen.viewMode = "month"
  /\ screen.selectedDate = ClockNow
  /\ screen.currentMonth = NewDate(2024, 11, 1, tzOffset)

OnSettings == screen.name = "SettingsScreen"

\* The redirect to the auth screen has been asked of the router.
Redirected(s) == \E i \in 1..Len(s.router) : s.router[i].method = "replace"

(***************************************************************************)
(* C29: the token leaves SecureStore only while a "Log out" the user has   *)
(* confirmed is deleting it; Cancel leaves it where it is; and the         *)
(* redirect to the auth screen is asked for only once the deletion has     *)
(* completed: the awaited deleteItemAsync has fulfilled and the token is   *)
(* gone.                                                                   *)
(***************************************************************************)
C29_LogoutDeletesThenRedirects ==
  [][OnSettings =>
       /\ screen'.secureStore # screen.secureStore =>
            \E i \in 1..Len(screen.logout) : screen.logout[i].deleteItemAsync = Null
       /\ (screen.alert # Null /\ screen'.alert = Null /\ screen'.logout = screen.logout) =>
            screen'.secureStore = screen.secureStore
       /\ screen'.router # screen.router =>
            /\ \E i \in 1..Len(screen.logout) : Fulfilled(screen.logout[i].deleteItemAsync)
            /\ "userToken" \notin screen'.secureStore
            /\ Redirected(screen')]_vars

\* The user has confirmed, the token is gone and the router has been asked
\* for the auth screen.
C29_Witness ==
  /\ OnSettings
  /\ Redirected(screen)
  /\ screen.secureStore = {}
  /\ screen.logout = <<>>

OnFAB == screen.name = "ExpandableFAB"

\* The router calls that push one of the menu's routes.
MenuPushes(s) == Len(SelectSeq(s.router, LAMBDA c : c.route \in Routes))

\* Each navigateAndClose leaves the menu closed and sets one timer; each
\* timer that fires makes one push.
NavigateClosesAndPushesOnce ==
  OnFAB =>
    /\ Len(screen'.timers) > Len(screen.timers) =>
         /\ ~screen'.open
         /\ Len(screen'.timers) = Len(screen.timers) + 1
         /\ MenuPushes(screen') = MenuPushes(screen)
    /\ MenuPushes(screen') # MenuPushes(screen) =>
         /\ MenuPushes(screen') = MenuPushes(screen) + 1
         /\ Len(screen'.timers) = Len(screen.timers) - 1

(***************************************************************************)
(* C30: the open flag of the floating menu is a strict toggle: every call  *)
(* of toggleMenu flips it, so the flag is set exactly after an odd number  *)
(* of calls, whether or not the component has rendered in between; and     *)
(* navigateAndClose from an open menu leaves the menu closed with exactly  *)
(* one route push to follow.  Fails: toggleMenu sets !open of the render   *)
(* it was created in, so a second call before the next render sets the     *)
(* same value again.                                                       *)
(***************************************************************************)
C30_StrictToggle ==
  /\ [](OnFAB => (screen.open <=> screen.toggles % 2 = 1))
  /\ [][NavigateClosesAndPushesOnce]_vars

====
